---- MODULE Spec2Model ----
(***************************************************************************)
(* A model of LuaContext (include/LuaContext.hpp): the marshaling layer    *)
(* between host values and the Lua stack machine.                          *)
(*                                                                         *)
(* The Lua state is a record L that every C API primitive transforms.      *)
(* L.status is "ok" while control runs normally; "error" while a Lua error *)
(* (lua_error, a longjmp) unwinds to the nearest lua_pcall; "throw" while  *)
(* a C++ exception unwinds to the nearest catch; "panic" after an          *)
(* unprotected Lua error (lua_atpanic, exit); "ub" after an operation the  *)
(* C API leaves undefined.  Every primitive is the identity on a state     *)
(* whose status is not "ok", so a sequence of calls reads as in the source.*)
(*                                                                         *)
(* Lua values are records [t, v]: t is the name lua_typename gives, v a    *)
(* tuple of integers (a number i + h/2 is <<i, h>>, a string its bytes, a   *)
(* table or userdata its heap index).                                      *)
(***************************************************************************)
EXTENDS Integers, Sequences, FiniteSets, TLC

VARIABLES lua, last, steps, registered

vars == <<lua, last, steps, registered>>

\* Every call between routines goes through Run, defined after them.
RECURSIVE Run(_, _, _)

(***************************** Lua values **********************************)
Nil == [t |-> "nil", v |-> <<>>]
Bool(b) == [t |-> "boolean", v |-> <<IF b THEN 1 ELSE 0>>]
Num(i, h) == [t |-> "number", v |-> <<i, h>>]
Str(s) == [t |-> "string", v |-> s]
Tab(id) == [t |-> "table", v |-> <<id>>]
UD(id) == [t |-> "userdata", v |-> <<id>>]
LUD(p) == [t |-> "lightuserdata", v |-> p]
Fun(c) == [t |-> "function", v |-> c]

\* lua_typename(lua_type(v)): a light userdata is reported as "userdata"
TypeName(x) == IF x.t = "lightuserdata" THEN "userdata" ELSE x.t

(***************************** strings *************************************)
\* bytes: '0'..'9' are 48..57, '-' is 45, '.' is 46, NUL is 0
Digit(c) == c \in 48..57

RECURSIVE NatToStr(_)
NatToStr(n) == IF n < 10 THEN <<48 + n>> ELSE NatToStr(n \div 10) \o <<48 + (n % 10)>>

RECURSIVE StrToNat(_)
StrToNat(s) == IF s = <<>> THEN 0 ELSE 10 * StrToNat(SubSeq(s, 1, Len(s) - 1)) + (s[Len(s)] - 48)

\* lua_tostring of a number (LUA_NUMBER_FMT "%.14g"): i + h/2
NumToStr(i, h) ==
    LET neg == i < 0
        \* magnitude of i + h/2 as whole part and half flag
        w == IF neg THEN (IF h = 1 THEN -i - 1 ELSE -i) ELSE i
    IN (IF neg THEN <<45>> ELSE <<>>) \o NatToStr(w) \o (IF h = 1 THEN <<46, 53>> ELSE <<>>)

\* the text up to the first NUL: what a const char* denotes
RECURSIVE CStr(_)
CStr(s) == IF s = <<>> \/ s[1] = 0 THEN <<>> ELSE <<s[1]>> \o CStr(Tail(s))

AllDigits(s) == s # <<>> /\ \A k \in 1..Len(s) : Digit(s[k])

\* lua_str2number: decimal integers, optionally signed, optionally ending ".5"
IsNumeral(s) ==
    LET u == IF s # <<>> /\ s[1] = 45 THEN Tail(s) ELSE s
        n == Len(u)
    IN \/ AllDigits(u)
       \/ n >= 3 /\ u[n - 1] = 46 /\ u[n] = 53 /\ AllDigits(SubSeq(u, 1, n - 2))

ParseNum(s) ==
    LET neg == s # <<>> /\ s[1] = 45
        u == IF neg THEN Tail(s) ELSE s
        n == Len(u)
        half == n >= 3 /\ u[n - 1] = 46
        w == StrToNat(IF half THEN SubSeq(u, 1, n - 2) ELSE u)
    IN IF ~neg THEN Num(w, IF half THEN 1 ELSE 0)
       ELSE IF half THEN Num(-w - 1, 1) ELSE Num(-w, 0)

(***************************** the stack ***********************************)
LUA_REGISTRYINDEX == -1001000
RegistryTable == 1
GlobalsTable == 2

EmptyTab == [x \in {} |-> Nil]

Ok(L) == L.status = "ok"
lua_gettop(L) == Len(L.stack) - L.base
AbsIndex(L, idx) == IF idx > 0 THEN L.base + idx ELSE Len(L.stack) + 1 + idx
ValidIndex(L, idx) ==
    idx = LUA_REGISTRYINDEX \/ (idx # 0 /\ AbsIndex(L, idx) \in (L.base + 1)..Len(L.stack))

\* the value at an acceptable index (none reads as nil)
At(L, idx) ==
    IF idx = LUA_REGISTRYINDEX THEN Tab(RegistryTable)
    ELSE IF ValidIndex(L, idx) THEN L.stack[AbsIndex(L, idx)]
    ELSE Nil

Fail(L, s) == [L EXCEPT !.status = s]
LuaError(L, e) == [L EXCEPT !.status = "error", !.errv = e]
Throw(L, chain) == [L EXCEPT !.status = "throw", !.exc = chain]

Push(L, x) == IF ~Ok(L) THEN L ELSE [L EXCEPT !.stack = Append(@, x)]
lua_pushnil(L) == Push(L, Nil)
lua_pushboolean(L, b) == Push(L, Bool(b))
lua_pushinteger(L, n) == Push(L, Num(n, 0))
lua_pushnumber(L, i, h) == Push(L, Num(i, h))
lua_pushstring(L, s) == Push(L, Str(CStr(s)))
lua_pushlightuserdata(L, p) == Push(L, LUD(p))
lua_pushvalue(L, idx) ==
    IF ~Ok(L) THEN L
    ELSE IF ~ValidIndex(L, idx) THEN Fail(L, "ub")
    ELSE Push(L, At(L, idx))

\* lua_pop(L, n) is lua_settop(L, -n-1); popping more than the frame holds is undefined
lua_pop(L, n) ==
    IF ~Ok(L) THEN L
    ELSE IF n > lua_gettop(L) THEN Fail(L, "ub")
    ELSE [L EXCEPT !.stack = SubSeq(@, 1, Len(@) - n)]

lua_remove(L, idx) ==
    IF ~Ok(L) THEN L
    ELSE IF ~ValidIndex(L, idx) THEN Fail(L, "ub")
    ELSE LET a == AbsIndex(L, idx)
         IN [L EXCEPT !.stack = SubSeq(@, 1, a - 1) \o SubSeq(@, a + 1, Len(@))]

SetAt(L, idx, x) == [L EXCEPT !.stack[AbsIndex(L, idx)] = x]

lua_isnil(L, idx) == At(L, idx).t = "nil"
lua_istable(L, idx) == At(L, idx).t = "table"
lua_isboolean(L, idx) == At(L, idx).t = "boolean"
lua_isfunction(L, idx) == At(L, idx).t = "function"
lua_isuserdata(L, idx) == At(L, idx).t \in {"userdata", "lightuserdata"}
\* a lua_isnumber that is true of numbers only
lua_isnumber_Strict(L, idx) == At(L, idx).t = "number"
lua_isnumber(L, idx) ==
    At(L, idx).t = "number" \/ (At(L, idx).t = "string" /\ IsNumeral(At(L, idx).v))
lua_isstring(L, idx) == At(L, idx).t \in {"string", "number"}

\* lua_tonumber: the number, with strings converted (0 when not convertible)
lua_tonumber(L, idx) ==
    LET x == At(L, idx)
    IN IF x.t = "number" THEN x
       ELSE IF x.t = "string" /\ IsNumeral(x.v) THEN ParseNum(x.v)
       ELSE Num(0, 0)

\* lua_tostring converts a number IN PLACE to a string; TRUE iff it returns non-NULL
CanToString(L, idx) == lua_isstring(L, idx)
lua_tostring(L, idx) ==
    IF ~Ok(L) THEN L
    ELSE LET x == At(L, idx)
         IN IF x.t = "number" /\ idx # LUA_REGISTRYINDEX
            THEN SetAt(L, idx, Str(NumToStr(x.v[1], x.v[2])))
            ELSE L
\* the char* it returned, read after the conversion
StringAt(L, idx) == At(L, idx).v

(***************************** tables **************************************)
RawGet(h, k) == IF k \in DOMAIN h THEN h[k] ELSE Nil
RawSet(h, k, x) ==
    IF x = Nil THEN [y \in (DOMAIN h) \ {k} |-> h[y]]
    ELSE [y \in (DOMAIN h) \cup {k} |-> IF y = k THEN x ELSE h[y]]

TabOf(L, x) == L.tabs[x.v[1]]

lua_newtable(L) ==
    IF ~Ok(L) THEN L
    ELSE [L EXCEPT !.tabs = Append(@, [h |-> EmptyTab, mt |-> 0]),
                   !.stack = Append(@, Tab(Len(L.tabs) + 1))]

\* lua_rawget(L, idx): replaces the key on top by t[key], no metamethods
lua_rawget(L, idx) ==
    IF ~Ok(L) THEN L
    ELSE LET t == At(L, idx)
             k == At(L, -1)
         IN IF t.t # "table" THEN Fail(L, "ub")
            ELSE SetAt(L, -1, RawGet(TabOf(L, t).h, k))

\* lua_rawset semantics on a table value: t[k] = x
StoreRaw(L, t, k, x) == [L EXCEPT !.tabs[t.v[1]].h = RawSet(@, k, x)]

(***************************** byte strings ********************************)
S_index == <<95, 95, 105, 110, 100, 101, 120>>  \* "__index"
S_newindex == <<95, 95, 110, 101, 119, 105, 110, 100, 101, 120>>  \* "__newindex"
S_gc == <<95, 95, 103, 99>>  \* "__gc"
S_call == <<95, 95, 99, 97, 108, 108>>  \* "__call"
S_typeid == <<95, 116, 121, 112, 101, 105, 100>>  \* "_typeid"
S_NoSetter == <<78, 111, 32, 115, 101, 116, 116, 101, 114, 32, 102, 111, 117, 110, 100>>  \* "No setter found"
S_AtLeast == <<84, 104, 105, 115, 32, 102, 117, 110, 99, 116, 105, 111, 110, 32, 114, 101, 113, 117, 105, 114, 101, 115, 32, 97, 116, 32, 108, 101, 97, 115, 116, 32>>  \* "This function requires at least "
S_AtMost == <<84, 104, 105, 115, 32, 102, 117, 110, 99, 116, 105, 111, 110, 32, 114, 101, 113, 117, 105, 114, 101, 115, 32, 97, 116, 32, 109, 111, 115, 116, 32>>  \* "This function requires at most "
S_Params == <<32, 112, 97, 114, 97, 109, 101, 116, 101, 114, 40, 115, 41>>  \* " parameter(s)"
S_Unable == <<85, 110, 97, 98, 108, 101, 32, 116, 111, 32, 99, 111, 110, 118, 101, 114, 116, 32, 112, 97, 114, 97, 109, 101, 116, 101, 114, 32, 102, 114, 111, 109, 32>>  \* "Unable to convert parameter from "
S_to == <<32, 116, 111, 32>>  \* " to "
S_unknown == <<117, 110, 107, 110, 111, 119, 110>>  \* "unknown"
S_null == <<110, 117, 108, 108>>  \* "null"
S_CallbackThrew == <<69, 120, 99, 101, 112, 116, 105, 111, 110, 32, 116, 104, 114, 111, 119, 110, 32, 98, 121, 32, 97, 32, 99, 97, 108, 108, 98, 97, 99, 107, 32, 102, 117, 110, 99, 116, 105, 111, 110, 32, 99, 97, 108, 108, 101, 100, 32, 98, 121, 32, 76, 117, 97>>  \* "Exception thrown by a callback function called by Lua"
\* messages of the Lua runtime itself
S_attemptIndex == <<97, 116, 116, 101, 109, 112, 116, 32, 116, 111, 32, 105, 110, 100, 101, 120>>  \* "attempt to index"
S_attemptCall == <<97, 116, 116, 101, 109, 112, 116, 32, 116, 111, 32, 99, 97, 108, 108>>  \* "attempt to call"
S_attemptArith == <<97, 116, 116, 101, 109, 112, 116, 32, 116, 111, 32, 112, 101, 114, 102, 111, 114, 109, 32, 97, 114, 105, 116, 104, 109, 101, 116, 105, 99>>  \* "attempt to perform arithmetic"
S_badnext == <<105, 110, 118, 97, 108, 105, 100, 32, 107, 101, 121, 32, 116, 111, 32, 39, 110, 101, 120, 116, 39>>  \* "invalid key to 'next'"
S_where == <<99, 104, 117, 110, 107, 58, 49, 58, 32>>  \* "chunk:1: "
\* names and data used by the host program and the scripts
S_hello == <<104, 101, 108, 108, 111>>  \* "hello"
S_12 == <<49, 50>>  \* "12"
S_2p5 == <<50, 46, 53>>  \* "2.5"
S_a0b == <<97, 0, 98>>  \* "a\0b"
S_a == <<97>>  \* "a"
S_b == <<98>>  \* "b"
S_c == <<99>>  \* "c"
S_f == <<102>>  \* "f"
S_obj == <<111, 98, 106>>  \* "obj"
S_value == <<118, 97, 108, 117, 101>>  \* "value"
S_foo == <<102, 111, 111>>  \* "foo"
S_other == <<111, 116, 104, 101, 114>>  \* "other"

(***************************** calls and metamethods ***********************)
LUA_MULTRET == -1
LUA_ERRRUN == 2
LUA_ERRMEM == 4
LUA_ERRGCMM == 5
LUA_ERRERR == 6
S_memory == <<110, 111, 116, 32, 101, 110, 111, 117, 103, 104, 32, 109, 101, 109, 111, 114, 121>>  \* "not enough memory"
S_gcError == <<101, 114, 114, 111, 114, 32, 105, 110, 32, 95, 95, 103, 99>>  \* "error in __gc"
S_errError == <<101, 114, 114, 111, 114, 32, 105, 110, 32, 101, 114, 114, 111, 114, 32, 104, 97, 110, 100, 108, 105, 110, 103>>  \* "error in error handling"

\* the C functions the library hands to Lua, by the first element of Fun's payload
F_function == 1          \* Pusher<R(P...)>::push, trivially destructible: closure over the function object
F_indexFunction == 2     \* Pusher<TType>::push indexFunction, payload <<2, base, shape>>
F_newIndexFunction == 3  \* Pusher<TType>::push newIndexFunction
F_garbage == 4           \* garbageCallbackFunction / garbageCallback
F_callCallback == 5      \* Pusher<R(P...)>::push, non-trivially destructible: __call of the userdata
F_chunk == 7             \* a compiled Lua chunk, payload <<7, id>>
F_luaAdd == 8            \* the Lua closure function(i) return i + k end, payload <<8, k>>

MetaOf(L, x) ==
    IF x.t = "table" THEN L.tabs[x.v[1]].mt
    ELSE IF x.t = "userdata" THEN L.uds[x.v[1]].mt
    ELSE 0
MetaField(L, x, name) ==
    IF MetaOf(L, x) = 0 THEN Nil ELSE RawGet(L.tabs[MetaOf(L, x)].h, Str(name))

\* the values a call leaves, adjusted to the number wanted
Adjust(res, want) ==
    IF want = LUA_MULTRET THEN res
    ELSE [k \in 1..want |-> IF k <= Len(res) THEN res[k] ELSE Nil]


\* t[k] pushed on the stack, through __index
luaV_gettable(L, t, k) ==
    IF ~Ok(L) THEN L
    ELSE LET raw == IF t.t = "table" THEN RawGet(TabOf(L, t).h, k) ELSE Nil
             h == MetaField(L, t, S_index)
         IN IF t.t = "table" /\ (raw # Nil \/ h = Nil) THEN Push(L, raw)
            ELSE IF t.t = "string" THEN Push(L, Nil)
            ELSE IF h = Nil THEN LuaError(L, Str(S_attemptIndex))
            ELSE IF h.t = "function"
                 THEN Run("luaD_call", Push(Push(Push(L, h), t), k), <<2, 1>>)
            ELSE Run("luaV_gettable", L, <<h, k>>)

\* t[k] = x, through __newindex
luaV_settable(L, t, k, x) ==
    IF ~Ok(L) THEN L
    ELSE LET raw == IF t.t = "table" THEN RawGet(TabOf(L, t).h, k) ELSE Nil
             h == MetaField(L, t, S_newindex)
         IN IF t.t = "table" /\ (raw # Nil \/ h = Nil) THEN StoreRaw(L, t, k, x)
            ELSE IF h = Nil THEN LuaError(L, Str(S_attemptIndex))
            ELSE IF h.t = "function"
                 THEN Run("luaD_call", Push(Push(Push(Push(L, h), t), k), x), <<3, 0>>)
            ELSE Run("luaV_settable", L, <<h, k, x>>)

\* lua_gettable(L, idx): pops the key, pushes t[key] where t is the value at idx
lua_gettable(L, idx) ==
    IF ~Ok(L) THEN L
    ELSE IF ~ValidIndex(L, idx) \/ lua_gettop(L) < 1 THEN Fail(L, "ub")
    ELSE Run("luaV_gettable", lua_pop(L, 1), <<At(L, idx), At(L, -1)>>)

\* lua_settable(L, idx): t[k] = v, k below the top, v on top; pops both
lua_settable(L, idx) ==
    IF ~Ok(L) THEN L
    ELSE IF ~ValidIndex(L, idx) \/ lua_gettop(L) < 2 THEN Fail(L, "ub")
    ELSE Run("luaV_settable", lua_pop(L, 2), <<At(L, idx), At(L, -2), At(L, -1)>>)

lua_setfield(L, idx, name) ==
    IF ~Ok(L) THEN L
    ELSE IF ~ValidIndex(L, idx) \/ lua_gettop(L) < 1 THEN Fail(L, "ub")
    ELSE Run("luaV_settable", lua_pop(L, 1), <<At(L, idx), Str(CStr(name)), At(L, -1)>>)

\* the registry of a runtime keeps its globals table at LUA_RIDX_GLOBALS
LUA_RIDX_GLOBALS == 2
GlobalsOf(L) == RawGet(L.tabs[RegistryTable].h, Num(LUA_RIDX_GLOBALS, 0))
lua_pushglobaltable(L) == Push(L, GlobalsOf(L))
lua_getglobal(L, name) == Run("luaV_gettable", L, <<GlobalsOf(L), Str(CStr(name))>>)
lua_setglobal(L, name) ==
    IF ~Ok(L) THEN L
    ELSE Run("luaV_settable", lua_pop(L, 1), <<GlobalsOf(L), Str(CStr(name)), At(L, -1)>>)

\* lua_getmetatable: pushes the metatable and yields 1, or pushes nothing and yields 0
HasMetatable(L, idx) == MetaOf(L, At(L, idx)) # 0
lua_getmetatable(L, idx) ==
    IF ~Ok(L) \/ ~HasMetatable(L, idx) THEN L ELSE Push(L, Tab(MetaOf(L, At(L, idx))))

\* lua_setmetatable: pops a table and makes it the metatable of the value at idx
lua_setmetatable(L, idx) ==
    IF ~Ok(L) THEN L
    ELSE LET x == At(L, idx)
             m == At(L, -1)
             id == IF m.t = "table" THEN m.v[1] ELSE 0
             L1 == lua_pop(L, 1)
         IN IF x.t = "table" THEN [L1 EXCEPT !.tabs[x.v[1]].mt = id]
            ELSE IF x.t = "userdata"
                 \* a userdata is marked for finalization when the metatable it is given
                 \* has a __gc field at that moment
                 THEN [L1 EXCEPT !.uds[x.v[1]].mt = id,
                                 !.uds[x.v[1]].fz = @ \/ (id # 0 /\ RawGet(L.tabs[id].h, Str(S_gc)) # Nil)]
            ELSE L1

\* lua_concat(L, n): the top n strings and numbers become one string
RECURSIVE ConcatAll(_)
ConcatAll(xs) ==
    IF xs = <<>> THEN <<>>
    ELSE (IF xs[1].t = "number" THEN NumToStr(xs[1].v[1], xs[1].v[2]) ELSE xs[1].v)
         \o ConcatAll(Tail(xs))
lua_concat(L, n) ==
    IF ~Ok(L) THEN L
    ELSE IF n > lua_gettop(L) THEN Fail(L, "ub")
    ELSE LET top == SubSeq(L.stack, Len(L.stack) - n + 1, Len(L.stack))
         IN Push(lua_pop(L, n), Str(ConcatAll(top)))

\* lua_error: raises the value on top of the stack
lua_error(L) == IF ~Ok(L) THEN L ELSE LuaError(lua_pop(L, 1), At(L, -1))
luaL_where(L, lvl) == Push(L, Str(S_where))

\* luaD_call: the callee (a function, or a value with __call) sits below its nargs
\* arguments; it runs in its own frame and its results replace callee and arguments
luaD_call(L, nargs, nresults) ==
    IF ~Ok(L) THEN L
    ELSE LET fpos == Len(L.stack) - nargs
             f == L.stack[fpos]
             h == MetaField(L, f, S_call)
         IN IF f.t = "function"
            THEN LET Lin == [L EXCEPT !.base = fpos]
                     Lout == Run("CallFunction", Lin, <<f>>)
                     res == SubSeq(Lout.stack, Len(Lout.stack) - Lout.nret + 1, Len(Lout.stack))
                 IN IF Lout.status = "throw" THEN Fail(Lout, "ub")
                    ELSE IF ~Ok(Lout) THEN Lout
                    ELSE [Lout EXCEPT !.stack = SubSeq(L.stack, 1, fpos - 1) \o Adjust(res, nresults),
                                      !.base = L.base]
            ELSE IF h.t = "function"
            THEN Run("luaD_call", [L EXCEPT !.stack = SubSeq(@, 1, fpos - 1) \o <<h>>
                                               \o SubSeq(@, fpos, Len(@))], <<nargs + 1, nresults>>)
            ELSE LuaError(L, Str(S_attemptCall))

\* the message the runtime leaves for a failure that is not a Lua error
FaultMessage(status) ==
    IF status = LUA_ERRMEM THEN S_memory ELSE IF status = LUA_ERRGCMM THEN S_gcError ELSE S_errError
\* lua_pcall with no message handler: a Lua error raised inside is caught, the
\* stack is cut back to the callee's slot and the error value is pushed there; L.fault
\* is the failure the runtime meets during the call (memory exhausted, a finalizer
\* that fails, the C stack exhausted while an error is handled), 0 for none
lua_pcall(L, nargs, nresults) ==
    IF ~Ok(L) THEN L
    ELSE LET fpos == Len(L.stack) - nargs
             Lr == Run("luaD_call", L, <<nargs, nresults>>)
         IN IF L.fault # 0
            THEN [L EXCEPT !.fault = 0, !.rc = L.fault,
                           !.stack = SubSeq(L.stack, 1, fpos - 1) \o <<Str(FaultMessage(L.fault))>>]
            ELSE IF Lr.status = "error"
            THEN [Lr EXCEPT !.status = "ok", !.errv = Nil, !.base = L.base, !.rc = LUA_ERRRUN,
                            !.stack = SubSeq(L.stack, 1, fpos - 1) \o <<Lr.errv>>]
            ELSE IF Ok(Lr) THEN [Lr EXCEPT !.rc = 0]
            ELSE Lr

(***************************** host values and types ***********************)
\* A host (C++) value: kind, payload of integers, sub-values.
HV(k, d, s) == [s |-> s, k |-> k, d |-> d]
HNone == HV("none", <<>>, <<>>)
HBool(b) == HV("bool", <<IF b THEN 1 ELSE 0>>, <<>>)
HInt(n) == HV("int", <<n>>, <<>>)
HFloat(i, h) == HV("double", <<i, h>>, <<>>)
HStr(s) == HV("string", s, <<>>)
HSome(v) == HV("optional", <<>>, <<v>>)
HEmpty == HV("optional", <<>>, <<>>)
HPair(a, b) == HV("pair", <<>>, <<a, b>>)
HMap(pairs) == HV("map", <<>>, pairs)
HTuple(vs) == HV("tuple", <<>>, vs)
HVec(elems) == HV("vector", <<>>, elems)
\* a boost::variant holding v as its alternative number which (from 0)
HVariant(which, v) == HV("variant", <<which>>, <<v>>)
HObj(c, x) == HV("object", <<c, x>>, <<>>)
HPtr(c, addr) == HV("ptr", <<c, addr>>, <<>>)
HShared(c, addr) == HV("shared_ptr", <<c, addr>>, <<>>)
HFn(fid, triv) == HV("function", <<fid, triv>>, <<>>)
HExcPtr(chain) == HV("exception_ptr", <<>>, chain)
\* a LuaFunctionCaller: a shared_ptr to the ValueInRegistry at address id
HCaller(id) == HV("caller", <<id>>, <<>>)
\* exceptions: the kind is the class name, the payload the message
WrongTypeException(luaType) == HV("WrongTypeException", luaType, <<>>)
ExecutionErrorException(msg) == HV("ExecutionErrorException", msg, <<>>)
RuntimeError(n) == HV("runtime_error", <<n>>, <<>>)
BadAlloc == HV("bad_alloc", <<>>, <<>>)

\* A host type: kind, parameter types, class or function number.
TY(k, a, n) == [n |-> n, k |-> k, a |-> a]
T_void == TY("void", <<>>, 0)
T_bool == TY("bool", <<>>, 0)
T_int == TY("int", <<>>, 0)
T_double == TY("double", <<>>, 0)
T_string == TY("string", <<>>, 0)
T_optional(t) == TY("optional", <<t>>, 0)
T_map(k, v) == TY("map", <<k, v>>, 0)
T_unordered_map(k, v) == TY("unordered_map", <<k, v>>, 0)
T_vector_pair(k, v) == TY("vector_pair", <<k, v>>, 0)
T_tuple(ts) == TY("tuple", ts, 0)
T_vector(t) == TY("vector", <<t>>, 0)
T_variant(ts) == TY("variant", ts, 0)
T_obj(c) == TY("object", <<>>, c)
T_ptr(c) == TY("ptr", <<>>, c)
T_shared(c) == TY("shared_ptr", <<>>, c)
T_const_ptr(c) == TY("const_ptr", <<>>, c)
T_shared_const(c) == TY("shared_const", <<>>, c)
T_exception_ptr == TY("exception_ptr", <<>>, 0)
T_function(fid) == TY("function", <<>>, fid)
\* LuaFunctionCaller<int (int)>, which std::function<int (int)> is read as
T_caller == TY("caller", <<>>, 0)

\* the classes of the host program
Foo == 1
Bar == 2
Bomb == 3   \* a class whose copy and move constructors throw

\* &typeid(T): one token per (shape, class)
ShapeCode(k) ==
    IF k = "object" THEN 0 ELSE IF k = "ptr" THEN 1 ELSE IF k = "shared_ptr" THEN 2
    ELSE IF k = "const_ptr" THEN 3 ELSE IF k = "shared_const" THEN 4
    ELSE IF k = "vector" THEN 6 ELSE 5
TypeId(ty) == <<ShapeCode(ty.k), ty.n>>
Shaped(shape, c) ==
    IF shape = 0 THEN T_obj(c) ELSE IF shape = 1 THEN T_ptr(c)
    ELSE IF shape = 2 THEN T_shared(c) ELSE IF shape = 3 THEN T_const_ptr(c)
    ELSE IF shape = 4 THEN T_shared_const(c) ELSE T_exception_ptr
TypeOfId(p) == Shaped(p[1], p[2])
\* boost::has_trivial_destructor<T>
TrivialDtor(ty) == ty.k \in {"ptr", "const_ptr"} \/ (ty.k = "object" /\ ty.n = Foo)

\* try { ... } catch (...) { lua_pop(state, n); throw; }
CatchPopRethrow(L, n) ==
    IF L.status # "throw" THEN L
    ELSE LET Lp == lua_pop([L EXCEPT !.status = "ok"], n)
         IN IF Ok(Lp) THEN [Lp EXCEPT !.status = "throw"] ELSE Lp
Returns(L, n) == IF ~Ok(L) THEN L ELSE [L EXCEPT !.nret = n]
\* statement sequencing: the statements up to L1 have run when the rest starts
AndThen(L1, rest) == IF ~Ok(L1) THEN L1 ELSE rest

lua_newuserdata(L) ==
    IF ~Ok(L) THEN L
    ELSE [L EXCEPT !.uds = Append(@, [mt |-> 0, obj |-> HNone, fz |-> FALSE, gone |-> FALSE, fin |-> 0]),
                   !.stack = Append(@, UD(Len(L.uds) + 1))]
\* new (lua_touserdata(state, -1)) T(value)
PlacementNew(L, v) ==
    IF ~Ok(L) THEN L
    ELSE IF v.k = "object" /\ v.d[1] = Bomb THEN Throw(L, <<RuntimeError(Bomb)>>)
    ELSE [L EXCEPT !.uds[At(L, -1).v[1]].obj = v]
lua_pushcfunction(L, c) == Push(L, Fun(c))
lua_pushcclosure(L, c) ==
    IF ~Ok(L) THEN L ELSE Push(lua_pop(L, 1), Fun(c \o At(L, -1).v))

checkTypeRegistration(L, ty) ==
    LET L1 == lua_gettable(lua_pushlightuserdata(L, TypeId(ty)), LUA_REGISTRYINDEX)
        Sub(Lx, n) == lua_settable(lua_newtable(lua_pushinteger(Lx, n)), -3)
        L2 == lua_newtable(lua_pushlightuserdata(lua_pop(L1, 1), TypeId(ty)))
        L3 == Sub(L2, 0)
        L4 == Sub(L3, 1)
        L5 == Sub(L4, 3)
        L6 == Sub(L5, 4)
    IN IF ~Ok(L1) THEN L1
       ELSE IF ~lua_isnil(L1, -1) THEN lua_pop(L1, 1)
       ELSE AndThen(L2, AndThen(L3, AndThen(L4, AndThen(L5, AndThen(L6,
                lua_settable(L6, LUA_REGISTRYINDEX))))))

\* Pusher<TType>::push, the generic one: a userdata holding a copy of the value
PushObject(L, ty, v) ==
    LET L1 == PlacementNew(lua_newuserdata(Run("checkTypeRegistration", L, <<ty>>)), v)
        L2 == lua_newtable(L1)
        L3 == IF TrivialDtor(ty) THEN L2
              ELSE lua_settable(lua_pushcfunction(lua_pushstring(L2, S_gc), <<F_garbage>>), -3)
        L4 == lua_settable(lua_pushlightuserdata(lua_pushstring(L3, S_typeid), TypeId(ty)), -3)
        L5 == lua_settable(lua_pushcfunction(lua_pushstring(L4, S_index),
                                             <<F_indexFunction>> \o TypeId(ty)), -3)
        L6 == lua_settable(lua_pushcfunction(lua_pushstring(L5, S_newindex),
                                             <<F_newIndexFunction>> \o TypeId(ty)), -3)
    IN AndThen(L1, AndThen(L2, AndThen(L3, AndThen(L4, AndThen(L5, AndThen(L6,
           Returns(lua_setmetatable(L6, -2), 1)))))))

\* a push of a function object with a destructor that installs no __gc
PushFunction_NoGc(L, v) ==
    LET L1 == PlacementNew(lua_newuserdata(L), v)
    IN IF v.d[2] = 1
       THEN Returns(lua_pushcclosure(L1, <<F_function>>), 1)
       ELSE LET L2 == lua_newtable(L1)
                L3 == lua_settable(lua_pushcfunction(lua_pushstring(L2, S_call), <<F_callCallback>>), -3)
            IN AndThen(L1, AndThen(L2, AndThen(L3, Returns(lua_setmetatable(L3, -2), 1))))
\* Pusher<TReturnType (TParameters...)>::push, both versions
PushFunction(L, v) ==
    LET L1 == PlacementNew(lua_newuserdata(L), v)
    IN IF v.d[2] = 1
       THEN Returns(lua_pushcclosure(L1, <<F_function>>), 1)
       ELSE LET L2 == lua_newtable(L1)
                L3 == lua_settable(lua_pushcfunction(lua_pushstring(L2, S_call), <<F_callCallback>>), -3)
                L4 == lua_settable(lua_pushcfunction(lua_pushstring(L3, S_gc), <<F_garbage>>), -3)
            IN AndThen(L1, AndThen(L2, AndThen(L3, AndThen(L4,
                   Returns(lua_setmetatable(L4, -2), 1)))))


\* the loop of Pusher<std::map<TKey,TValue>>::push and its two siblings
PushPairs(L, kt, vt, pairs) ==
    IF ~Ok(L) \/ pairs = <<>> THEN L
    ELSE Run("PushPairs", lua_settable(Run("Pusher", Run("Pusher", L, <<kt, pairs[1].s[1]>>), <<vt, pairs[1].s[2]>>), -3), <<kt, vt, Tail(pairs)>>)

\* the loop numbering the elements from 0
PushSeq_ZeroBased(L, et, elems, i) ==
    IF ~Ok(L) \/ i > Len(elems) THEN L
    ELSE Run("PushSeq", lua_settable(Run("Pusher", lua_pushinteger(L, i - 1), <<et, elems[i]>>), -3),
             <<et, elems, i + 1>>)
\* the loop of Pusher<std::vector<TType>>::push, from element i on (i is the loop's i + 1)
PushSeq(L, et, elems, i) ==
    IF ~Ok(L) \/ i > Len(elems) THEN L
    ELSE Run("PushSeq", lua_settable(Run("Pusher", lua_pushinteger(L, i), <<et, elems[i]>>), -3),
             <<et, elems, i + 1>>)

\* a push of the first remaining element only
push2_FirstOnly(L, ts, vs, N) ==
    IF ~Ok(L) THEN L
    ELSE IF N > Len(ts) THEN Returns(L, 0)
    ELSE Run("Pusher", L, <<ts[N], vs[N]>>)
\* Pusher<std::tuple<TTypes...>>::push2, from element N on
push2(L, ts, vs, N) ==
    IF ~Ok(L) THEN L
    ELSE IF N > Len(ts) THEN Returns(L, 0)
    ELSE LET L1 == Run("Pusher", L, <<ts[N], vs[N]>>)
             pushed == L1.nret
             L2 == Run("push2", L1, <<ts, vs, N + 1>>)
         IN IF ~Ok(L1) THEN L1
            ELSE IF Ok(L2) THEN Returns(L2, pushed + L2.nret)
            ELSE CatchPopRethrow(L2, pushed)

Pusher(L, ty, v) ==
    CASE ty.k = "bool" -> Returns(lua_pushboolean(L, v.d[1] = 1), 1)
      [] ty.k = "int" -> Returns(lua_pushinteger(L, v.d[1]), 1)
      [] ty.k = "double" -> Returns(lua_pushnumber(L, v.d[1], v.d[2]), 1)
      [] ty.k = "string" -> Returns(lua_pushstring(L, v.d), 1)
      [] ty.k \in {"map", "unordered_map", "vector_pair"} ->
             Returns(Run("PushPairs", lua_newtable(L), <<ty.a[1], ty.a[2], v.s>>), 1)
      [] ty.k = "vector" -> Returns(Run("PushSeq", lua_newtable(L), <<ty.a[1], v.s, 1>>), 1)
      [] ty.k = "optional" ->
             IF v.s # <<>> THEN Run("Pusher", L, <<ty.a[1], v.s[1]>>) ELSE Returns(lua_pushnil(L), 1)
      [] ty.k = "tuple" -> Run("push2", L, <<ty.a, v.s, 1>>)
      [] ty.k = "function" -> PushFunction(L, v)
      [] ty.k = "void" -> Returns(L, 0)
      [] OTHER -> Run("PushObject", L, <<ty, v>>)

(***************************** table traversal ******************************)
RECURSIVE SeqLT(_, _)
SeqLT(a, b) ==
    IF b = <<>> THEN FALSE
    ELSE IF a = <<>> THEN TRUE
    ELSE IF a[1] # b[1] THEN a[1] < b[1]
    ELSE SeqLT(Tail(a), Tail(b))
TypeRank(x) ==
    IF x.t = "number" THEN 1 ELSE IF x.t = "string" THEN 2 ELSE IF x.t = "boolean" THEN 3 ELSE 4
\* the order in which lua_next visits the keys of a table: numbers ascending,
\* then strings, then the rest
KeyLT(a, b) ==
    IF TypeRank(a) # TypeRank(b) THEN TypeRank(a) < TypeRank(b)
    ELSE IF a.t = "number" THEN 2 * a.v[1] + a.v[2] < 2 * b.v[1] + b.v[2]
    ELSE IF a.t # b.t THEN SeqLT(<<Len(a.t)>>, <<Len(b.t)>>)
    ELSE SeqLT(a.v, b.v)
NextKey(h, k) ==
    LET after == {x \in DOMAIN h : k = Nil \/ KeyLT(k, x)}
    IN IF after = {} THEN Nil
       ELSE CHOOSE x \in after : \A y \in after : y = x \/ KeyLT(x, y)
\* lua_next(L, idx): pops a key; pushes the next key and its value and yields 1 (in rc),
\* or pushes nothing and yields 0
lua_next(L, idx) ==
    IF ~Ok(L) THEN L
    ELSE LET t == At(L, idx)
             k == At(L, -1)
             L1 == lua_pop(L, 1)
         IN IF t.t # "table" THEN Fail(L, "ub")
            ELSE IF k # Nil /\ k \notin DOMAIN TabOf(L, t).h THEN LuaError(L1, Str(S_badnext))
            ELSE LET n == NextKey(TabOf(L, t).h, k)
                 IN IF n = Nil THEN [L1 EXCEPT !.rc = 0]
                    ELSE [Push(Push(L1, n), TabOf(L, t).h[n]) EXCEPT !.rc = 1]

(***************************** values kept in the registry ******************)
\* ValueInRegistry::ValueInRegistry(lua), run by std::make_shared in the constructor
\* of LuaFunctionCaller: L.holders[id].n counts the LuaFunctionCaller objects that
\* share the ValueInRegistry at address id; src records the slot the Reader was
\* asked to read
ValueInRegistry(L, src) ==
    LET id == Len(L.holders) + 1
        L1 == [L EXCEPT !.holders = Append(@, [n |-> 1, src |-> src])]
    IN IF ~Ok(L) THEN L
       ELSE [lua_settable(lua_pushvalue(lua_pushlightuserdata(L1, <<id>>), -2), LUA_REGISTRYINDEX)
                EXCEPT !.ret = <<HCaller(id)>>]
\* ValueInRegistry::~ValueInRegistry()
ValueInRegistryDtor(L, id) ==
    lua_settable(lua_pushnil(lua_pushlightuserdata(L, <<id>>)), LUA_REGISTRYINDEX)
\* ValueInRegistry::pop()
ValueInRegistryPop(L, id) == lua_gettable(lua_pushlightuserdata(L, <<id>>), LUA_REGISTRYINDEX)
\* a LuaFunctionCaller is copied, or destroyed: the last one destroys the ValueInRegistry
Share(L, id) == [L EXCEPT !.holders[id].n = @ + 1]
Release(L, id) ==
    LET L1 == [L EXCEPT !.holders[id].n = @ - 1]
    IN IF ~Ok(L) THEN L ELSE IF L1.holders[id].n = 0 THEN ValueInRegistryDtor(L1, id) ELSE L1
RECURSIVE ReleaseAll(_, _)
ReleaseAll(L, vs) ==
    IF vs = <<>> THEN L
    ELSE ReleaseAll(IF vs[1].k = "caller" THEN Release(L, vs[1].d[1]) ELSE L, Tail(vs))

(***************************** readers **************************************)
S_nil == <<110, 105, 108>>  \* "nil"
S_boolean == <<98, 111, 111, 108, 101, 97, 110>>  \* "boolean"
S_number == <<110, 117, 109, 98, 101, 114>>  \* "number"
S_string == <<115, 116, 114, 105, 110, 103>>  \* "string"
S_table == <<116, 97, 98, 108, 101>>  \* "table"
S_function == <<102, 117, 110, 99, 116, 105, 111, 110>>  \* "function"
S_userdata == <<117, 115, 101, 114, 100, 97, 116, 97>>  \* "userdata"
S_novalue == <<110, 111, 32, 118, 97, 108, 117, 101>>  \* "no value"
NameBytes(t) ==
    IF t = "nil" THEN S_nil ELSE IF t = "boolean" THEN S_boolean
    ELSE IF t = "number" THEN S_number ELSE IF t = "string" THEN S_string
    ELSE IF t = "table" THEN S_table ELSE IF t = "function" THEN S_function
    ELSE IF t = "no value" THEN S_novalue ELSE S_userdata
\* lua_typename(state, lua_type(state, idx)); an index outside the frame reads a
\* slot the caller does not own, whose type is whatever L.junk says
lua_typename(L, idx) ==
    IF ValidIndex(L, idx) THEN NameBytes(TypeName(At(L, idx))) ELSE NameBytes(L.junk)

Ret(L, r) == IF ~Ok(L) THEN L ELSE [L EXCEPT !.ret = r]
\* a reference to the object held by a userdata
HRef(c, id) == HV("ref", <<c, id>>, <<>>)
\* std::map::insert: keys stay sorted and unique, the first insertion wins
HostKeyLT(a, b) == IF a.k = "string" THEN SeqLT(a.d, b.d) ELSE SeqLT(<<a.d[1]>>, <<b.d[1]>>)
RECURSIVE MapInsert(_, _)
MapInsert(pairs, p) ==
    IF pairs = <<>> THEN <<p>>
    ELSE IF pairs[1].s[1] = p.s[1] THEN pairs
    ELSE IF HostKeyLT(p.s[1], pairs[1].s[1]) THEN <<p>> \o pairs
    ELSE <<pairs[1]>> \o MapInsert(Tail(pairs), p)

\* a test that compares the class of the stored token and not its shape
TestObject_ClassOnly(L, ty, idx) ==
    /\ lua_isuserdata(L, idx)
    /\ HasMetatable(L, idx)
    /\ LET Lt == lua_gettable(lua_pushstring(lua_getmetatable(L, idx), S_typeid), -2)
       IN Ok(Lt) /\ At(Lt, -1).t = "lightuserdata" /\ At(Lt, -1).v[2] = ty.n
\* Reader<TType>::test, the generic one
TestObject(L, ty, idx) ==
    /\ lua_isuserdata(L, idx)
    /\ HasMetatable(L, idx)
    /\ LET Lt == lua_gettable(lua_pushstring(lua_getmetatable(L, idx), S_typeid), -2)
       IN Ok(Lt) /\ At(Lt, -1) = LUD(TypeId(ty))
\* Reader<TType>::read, the generic one: a T& into the userdata, or the pointer it holds
ReadObject(L, ty, idx) ==
    LET id == At(L, idx).v[1]
    IN IF ty.k = "object" THEN HRef(ty.n, id) ELSE L.uds[id].obj

RECURSIVE TupleTest(_, _, _, _)
RECURSIVE TupleRead(_, _, _, _)

\* the same loop without the lua_pop(state, 2) of a pair that does not convert
TraverseTest_KeepsPair(L, ty, idx, acc) ==
    LET Ln == lua_next(L, IF idx > 0 THEN idx ELSE idx - 1)
    IN IF ~Ok(Ln) THEN Ln
       ELSE IF Ln.rc = 0 THEN Ret(Ln, <<HV(ty.k, <<>>, acc)>>)
       ELSE LET Lk == Run("testRead", Ln, <<ty.a[1], -2>>)
                Lv == Run("testRead", Lk, <<ty.a[2], -1>>)
            IN IF ~Ok(Lv) THEN Lv
               ELSE IF Lk.ret = <<>> \/ Lv.ret = <<>> THEN Ret(Lv, <<>>)
               ELSE Run("TraverseTest", lua_pop(Lv, 1), <<ty, idx, IF ty.k = "vector_pair"
                                 THEN Append(acc, HPair(Lk.ret[1], Lv.ret[1]))
                                 ELSE MapInsert(acc, HPair(Lk.ret[1], Lv.ret[1]))>>)

\* the while loop of Reader<std::map<TKey,TValue>>::testRead and its siblings; acc is "result"
TraverseTest(L, ty, idx, acc) ==
    LET Ln == lua_next(L, IF idx > 0 THEN idx ELSE idx - 1)
    IN IF ~Ok(Ln) THEN Ln
       ELSE IF Ln.rc = 0 THEN Ret(Ln, <<HV(ty.k, <<>>, acc)>>)
       ELSE LET Lk == Run("testRead", Ln, <<ty.a[1], -2>>)
                Lv == Run("testRead", Lk, <<ty.a[2], -1>>)
            IN IF ~Ok(Lv) THEN Lv
               ELSE IF Lk.ret = <<>> \/ Lv.ret = <<>> THEN Ret(lua_pop(Lv, 2), <<>>)
               ELSE Run("TraverseTest", lua_pop(Lv, 1), <<ty, idx, IF ty.k = "vector_pair"
                                 THEN Append(acc, HPair(Lk.ret[1], Lv.ret[1]))
                                 ELSE MapInsert(acc, HPair(Lk.ret[1], Lv.ret[1]))>>)

IsOptional(ty) == ty.k = "optional"
\* a test of the fractional part that lets every number through
fmod1_Whole(x) == 0
\* fmod(nb, 1.): the fractional part of a number, in halves
fmod1(x) == x.v[2]
RECURSIVE ReaderTest(_, _, _)
RECURSIVE ReaderRead(_, _, _)
RECURSIVE VariantReader_LastMatch(_, _, _, _)
RECURSIVE VariantReader(_, _, _, _)
\* Reader<T>::test
ReaderTest(L, ty, idx) ==
    IF ty.k = "int" THEN lua_isnumber(L, idx) /\ fmod1(lua_tonumber(L, idx)) = 0
    ELSE IF ty.k = "double" THEN lua_isnumber(L, idx)
    ELSE IF ty.k = "bool" THEN lua_isboolean(L, idx)
    ELSE IF ty.k = "string" THEN lua_isstring(L, idx)
    ELSE IF ty.k \in {"map", "unordered_map", "vector_pair"} THEN lua_istable(L, idx)
    ELSE IF ty.k = "optional" THEN lua_isnil(L, idx) \/ ReaderTest(L, ty.a[1], idx)
    ELSE IF ty.k = "caller" THEN lua_isfunction(L, idx)
    ELSE IF ty.k = "variant" THEN \E i \in DOMAIN ty.a : ReaderTest(L, ty.a[i], idx)
    ELSE TestObject(L, ty, idx)
\* Reader<T>::read, for the types whose testRead is "test, then read"
ReaderRead(L, ty, idx) ==
    IF ty.k = "int" THEN HInt(lua_tonumber(L, idx).v[1])
    ELSE IF ty.k = "double" THEN HFloat(lua_tonumber(L, idx).v[1], lua_tonumber(L, idx).v[2])
    ELSE IF ty.k = "bool" THEN HBool(At(L, idx) # Bool(FALSE) /\ At(L, idx) # Nil)
    ELSE IF ty.k = "string" THEN HStr(CStr(StringAt(lua_tostring(L, idx), idx)))
    ELSE IF ty.k = "optional"
         THEN IF lua_isnil(L, idx) THEN HEmpty ELSE HSome(ReaderRead(L, ty.a[1], idx))
    ELSE IF ty.k = "variant" THEN VariantReader(L, ty.a, 1, idx)
    ELSE ReadObject(L, ty, idx)
\* a reader that yields the last alternative that accepts
VariantReader_LastMatch(L, ts, N, idx) ==
    IF N > Len(ts) THEN HNone
    ELSE LET later == VariantReader(L, ts, N + 1, idx)
         IN IF later # HNone THEN later
            ELSE IF ReaderTest(L, ts[N], idx) THEN HVariant(N - 1, ReaderRead(L, ts[N], idx))
            ELSE HNone
\* Reader<boost::variant<TTypes...>>::VariantReader, testRead and readSafe, from
\* alternative N on; HNone where the list of remaining types is empty
VariantReader(L, ts, N, idx) ==
    IF N > Len(ts) THEN HNone
    ELSE IF ReaderTest(L, ts[N], idx) THEN HVariant(N - 1, ReaderRead(L, ts[N], idx))
    ELSE VariantReader(L, ts, N + 1, idx)

\* Reader<std::tuple<TFirst, TOthers...>>::test, both versions, from element N on
TupleTest(L, ts, N, args) ==
    LET idx == args[1]
        maxSize == args[2]
    IN IF N > Len(ts) THEN TRUE
       ELSE IF maxSize <= 0 THEN IsOptional(ts[N])
       ELSE ReaderTest(L, ts[N], idx) /\ TupleTest(L, ts, N + 1, <<idx + 1, maxSize - 1>>)
\* Reader<std::tuple<TFirst, TOthers...>>::read, both versions; yields the elements, or
\* <<HNone>> where the non-Optional version throws
TupleRead(L, ts, N, args) ==
    LET idx == args[1]
        maxSize == args[2]
    IN IF N > Len(ts) THEN <<>>
       ELSE IF maxSize <= 0
            THEN IF IsOptional(ts[N])
                 THEN <<HEmpty>> \o TupleRead(L, ts, N + 1, <<idx + 1, maxSize - 1>>)
                 ELSE <<HNone>>
       ELSE <<ReaderRead(L, ts[N], idx)>> \o TupleRead(L, ts, N + 1, <<idx + 1, maxSize - 1>>)

\* Reader<T>::testRead: L.ret is empty when the optional is, and holds the value otherwise
testRead(L, ty, idx) ==
    IF ~Ok(L) THEN L
    ELSE IF ty.k = "int"
         THEN IF ~lua_isnumber(L, idx) THEN Ret(L, <<>>)
              ELSE IF fmod1(lua_tonumber(L, idx)) # 0 THEN Ret(L, <<>>)
              ELSE Ret(L, <<HInt(lua_tonumber(L, idx).v[1])>>)
    ELSE IF ty.k = "string"
         THEN IF ~CanToString(L, idx) THEN Ret(L, <<>>)
              ELSE LET Ls == lua_tostring(L, idx) IN Ret(Ls, <<HStr(CStr(StringAt(Ls, idx)))>>)
    ELSE IF ty.k = "optional"
         THEN IF lua_isnil(L, idx) THEN Ret(L, <<HEmpty>>)
              ELSE LET Ls == Run("testRead", L, <<ty.a[1], idx>>)
                   IN Ret(Ls, <<HV("optional", <<>>, Ls.ret)>>)
    ELSE IF ty.k \in {"map", "unordered_map", "vector_pair"}
         THEN IF ~lua_istable(L, idx) THEN Ret(L, <<>>)
              ELSE Run("TraverseTest", lua_pushnil(L), <<ty, idx, <<>>>>)
    ELSE IF ty.k = "tuple"
         THEN IF ~TupleTest(L, ty.a, 1, <<idx, Len(ty.a)>>) THEN Ret(L, <<>>)
              ELSE Ret(L, <<HTuple(TupleRead(L, ty.a, 1, <<idx, Len(ty.a)>>))>>)
    ELSE IF ty.k = "void" THEN Ret(L, <<HTuple(<<>>)>>)
    ELSE IF ty.k = "caller"
         THEN IF ~lua_isfunction(L, idx) THEN Ret(L, <<>>) ELSE ValueInRegistry(L, At(L, idx))
    ELSE IF ~ReaderTest(L, ty, idx) THEN Ret(L, <<>>)
    ELSE Ret(L, <<ReaderRead(L, ty, idx)>>)

\* a read that throws before it has popped
readTopAndPop_ThrowsFirst(L, ty, nb) ==
    LET Lv == Run("testRead", L, <<ty, -nb>>)
    IN IF ~Ok(Lv) THEN Lv
       ELSE IF Lv.ret = <<>> THEN Throw(Lv, <<WrongTypeException(lua_typename(Lv, -nb))>>)
       ELSE lua_pop(Lv, nb)
\* LuaContext::readTopAndPop<TReturnType>(state, nb)
readTopAndPop(L, ty, nb) ==
    LET Lv == Run("testRead", L, <<ty, -nb>>)
        Lp == lua_pop(Lv, nb)
    IN IF ~Ok(Lp) THEN Lp
       ELSE IF Lv.ret = <<>> THEN Throw(Lp, <<WrongTypeException(lua_typename(Lp, -nb))>>)
       ELSE Lp

(***************************** readSafe *************************************)
LogicError == HV("logic_error", <<>>, <<>>)

\* Reader<std::tuple<TFirst, TOthers...>>::readSafe, both versions, from element N on;
\* L.ret holds the elements read
TupleReadSafe(L, ts, N, args) ==
    LET idx == args[1]
        maxSize == args[2]
        rest(Lx) == Run("TupleReadSafe", Lx, <<ts, N + 1, <<idx + 1, maxSize - 1>>>>)
        Nested(Lx) == IF Lx.status = "throw"
                      THEN Throw(Lx, <<WrongTypeException(S_unknown)>> \o Lx.exc) ELSE Lx
    IN IF ~Ok(L) THEN L
       ELSE IF N > Len(ts) THEN Ret(L, <<>>)
       ELSE IF maxSize <= 0
            THEN IF IsOptional(ts[N])
                 THEN LET Lr == rest(L) IN Nested(Ret(Lr, <<HEmpty>> \o Lr.ret))
                 ELSE Nested(Throw(L, <<LogicError>>))
       ELSE LET L1 == Run("readSafe", L, <<ts[N], idx>>)
                Lr == rest(L1)
            IN Nested(Ret(Lr, L1.ret \o Lr.ret))

\* Reader<T>::readSafe: the value in L.ret, or WrongTypeException thrown
readSafe(L, ty, idx) ==
    IF ~Ok(L) THEN L
    ELSE IF ty.k = "optional"
         THEN IF lua_isnil(L, idx) THEN Ret(L, <<HEmpty>>)
              ELSE LET Ls == Run("readSafe", L, <<ty.a[1], idx>>) IN Ret(Ls, <<HV("optional", <<>>, Ls.ret)>>)
    ELSE IF ty.k = "tuple"
         THEN LET Lt == Run("TupleReadSafe", L, <<ty.a, 1, <<idx, Len(ty.a)>>>>) IN Ret(Lt, <<HTuple(Lt.ret)>>)
    ELSE IF ty.k \in {"int", "string"}
         THEN LET Lv == Run("testRead", L, <<ty, idx>>)
              IN IF Ok(Lv) /\ Lv.ret = <<>>
                 THEN Throw(Lv, <<WrongTypeException(lua_typename(Lv, idx))>>) ELSE Lv
    ELSE IF ~ReaderTest(L, ty, idx) THEN Throw(L, <<WrongTypeException(lua_typename(L, idx))>>)
    ELSE IF ty.k = "caller" THEN ValueInRegistry(L, At(L, idx))
    ELSE Ret(L, <<ReaderRead(L, ty, idx)>>)

(***************************** call, callRaw ********************************)
\* LuaContext::callRaw(state, inArguments, outArguments)
callRaw(L, inArguments, outArguments) ==
    LET Lp == lua_pcall(L, inArguments, outArguments)
    IN IF ~Ok(Lp) \/ Lp.rc = 0 THEN Lp
       ELSE IF Lp.rc = LUA_ERRMEM THEN Throw(Lp, <<BadAlloc>>)
       ELSE IF Lp.rc # LUA_ERRRUN THEN Lp
       ELSE IF lua_isstring(Lp, 1)
            THEN LET Lr == Run("readTopAndPop", Lp, <<T_string, 1>>)
                 IN IF Ok(Lr) THEN Throw(Lr, <<ExecutionErrorException(Lr.ret[1].d)>>) ELSE Lr
       ELSE LET Lr == Run("readTopAndPop", Lp, <<T_exception_ptr, 1>>)
            IN IF Ok(Lr)
               THEN Throw(Lr, <<ExecutionErrorException(S_CallbackThrew)>> \o Lr.ret[1].s)
               ELSE IF Lr.status = "throw"
               THEN Throw(Lr, <<ExecutionErrorException(S_CallbackThrew)>> \o Lr.exc)
               ELSE Lr

\* Tupleizer<T>::type
Tupleizer(ty) ==
    IF ty.k = "tuple" THEN ty ELSE IF ty.k = "void" THEN T_tuple(<<>>) ELSE T_tuple(<<ty>>)
\* LuaContext::call<TReturnType>(state, input...): ts and vs are the types and values
\* of the parameters
call(L, ty, ts, vs) ==
    LET outArguments == Len(Tupleizer(ty).a)
        Li == CatchPopRethrow(Run("push2", L, <<ts, vs, 1>>), 1)
        Lc == Run("callRaw", Li, <<Li.nret, outArguments>>)
        Lr == IF ty.k = "void" THEN lua_pop(Lc, outArguments) ELSE Run("readTopAndPop", Lc, <<ty, outArguments>>)
    IN IF ~Ok(Li) THEN Li ELSE IF ~Ok(Lc) THEN Lc ELSE CatchPopRethrow(Lr, outArguments)

(***************************** the host program's functions *****************)
\* free functions written into globals
f_inc == 1        \* int (int x): x + 1
f_variadic == 2   \* int (int, Optional<int>, Optional<double>): how many were given
f_triple == 3     \* std::tuple<int,int,std::string> (int x): (x, x + 1, "hello")
f_thrower == 4    \* int (): throws std::runtime_error
f_noop == 5       \* void (int)
f_bomb == 6       \* Bomb (): the result cannot be copied into the runtime
f_nest == 7       \* int (std::string): executeCode<int>("return f()") on the same context
f_keep == 9       \* void (std::function<int (int)> fn, int): keeps a copy of fn
\* functions registered on class Foo; the number is that of the T& version, the
\* wrappers taking T*, shared_ptr<T>, T const* and shared_ptr<T const> follow it
Shapes == 5
m_add == 10       \* int (Foo&, int x): value += x, returns value
m_foo == 15       \* int (Foo&): returns 2
m_get == 20       \* int (Foo const&): the getter of member "value"
m_set == 25       \* void (Foo&, int): the setter of member "value"
m_dynget == 30    \* int (Foo const&, std::string): the default getter
m_dynset == 35    \* void (Foo&, std::string, int): the default setter
\* int (P...) for a parameter list P over int and Optional<int> of length at most
\* MaxParams: it returns how many arguments it was given; the function value
\* carries P after its number, 1 for int and 2 for Optional<int>
f_sig == 8
MaxParams == 3
SigParam(c) == IF c = 1 THEN T_int ELSE T_optional(T_int)

MemberBase(fid) == m_add + Shapes * ((fid - m_add) \div Shapes)
MemberShape(fid) == (fid - m_add) % Shapes
IsMember(fid) == fid >= m_add /\ fid < m_dynset + Shapes
ObjParam(fid) == Shaped(MemberShape(fid), Foo)
FnParams(fn) ==
    LET fid == fn.d[1]
    IN
    IF fid = f_sig THEN [k \in 1..(Len(fn.d) - 2) |-> SigParam(fn.d[k + 2])]
    ELSE IF IsMember(fid)
         THEN <<ObjParam(fid)>> \o
              (IF MemberBase(fid) = m_add THEN <<T_int>>
               ELSE IF MemberBase(fid) = m_set THEN <<T_int>>
               ELSE IF MemberBase(fid) = m_dynget THEN <<T_string>>
               ELSE IF MemberBase(fid) = m_dynset THEN <<T_string, T_int>>
               ELSE <<>>)
    ELSE IF fid = f_inc \/ fid = f_triple \/ fid = f_noop THEN <<T_int>>
    ELSE IF fid = f_variadic THEN <<T_int, T_optional(T_int), T_optional(T_double)>>
    ELSE IF fid = f_nest THEN <<T_string>>
    ELSE IF fid = f_keep THEN <<T_caller, T_int>>
    ELSE <<>>
FnRet(fid) ==
    IF fid = f_triple THEN T_tuple(<<T_int, T_int, T_string>>)
    ELSE IF fid = f_noop \/ fid = f_keep \/ (IsMember(fid) /\ MemberBase(fid) \in {m_set, m_dynset}) THEN T_void
    ELSE IF fid = f_bomb THEN T_obj(Bomb)
    ELSE T_int

\* a count of the parameters that are not Optional, wherever they stand
RECURSIVE ArgsMin_CountRequired(_)
ArgsMin_CountRequired(ps) ==
    IF ps = <<>> THEN 0
    ELSE (IF IsOptional(ps[1]) THEN 0 ELSE 1) + ArgsMin_CountRequired(Tail(ps))
\* FunctionArgumentsCounter<TParameters...>::min and ::max
RECURSIVE ArgsMin(_)
ArgsMin(ps) ==
    IF ps = <<>> THEN 0
    ELSE IF IsOptional(ps[1]) /\ ArgsMin(Tail(ps)) = 0 THEN 0 ELSE 1 + ArgsMin(Tail(ps))
RECURSIVE ArgsMax(_)
ArgsMax(ps) == IF ps = <<>> THEN 0 ELSE 1 + ArgsMax(Tail(ps))

\* a write through a T& that lands in the host's object instead of the runtime's copy
SetTarget_HostObject(L, a, x) ==
    [L EXCEPT !.mem[IF a.k = "ref" THEN 3 ELSE a.d[2]] = HObj(a.d[1], x)]
\* the object a T&, T* or shared_ptr<T> argument designates
Target(L, a) == IF a.k = "ref" THEN L.uds[a.d[2]].obj ELSE L.mem[a.d[2]]
SetTarget(L, a, x) ==
    IF a.k = "ref" THEN [L EXCEPT !.uds[a.d[2]].obj = HObj(a.d[1], x)]
    ELSE [L EXCEPT !.mem[a.d[2]] = HObj(a.d[1], x)]
Present(a) == IF a.s = <<>> THEN 0 ELSE 1
RECURSIVE CountPresent(_)
CountPresent(as) ==
    IF as = <<>> THEN 0
    ELSE (IF as[1].k = "optional" THEN Present(as[1]) ELSE 1) + CountPresent(Tail(as))

Logged(L, k, fid, as) == [L EXCEPT !.log = Append(@, HV(k, <<fid>>, as))]
\* LuaContext::load: the compiled chunk is pushed
load(L, chunk) == Push(L, Fun(<<F_chunk, chunk>>))
InnerChunk == 1

\* the body of host function fid applied to the decoded arguments; the returned
\* value is left in L.ret (nothing for void)
Invoke(Lin, fid, as) ==
    LET L == Logged(Lin, "call", fid, as)
        b == MemberBase(fid)
        x == Target(L, as[1]).d[2]
    IN CASE fid = f_inc -> Ret(L, <<HInt(as[1].d[1] + 1)>>)
         [] fid = f_variadic \/ fid = f_sig -> Ret(L, <<HInt(CountPresent(as))>>)
         [] fid = f_triple ->
                Ret(L, <<HTuple(<<HInt(as[1].d[1]), HInt(as[1].d[1] + 1), HStr(S_hello)>>)>>)
         [] fid = f_thrower -> Throw(L, <<RuntimeError(f_thrower)>>)
         [] fid = f_noop -> Ret(L, <<>>)
         [] fid = f_bomb -> Ret(L, <<HObj(Bomb, 0)>>)
         [] fid = f_nest -> Run("call", load(L, InnerChunk), <<T_int, <<>>, <<>>>>)
         [] fid = f_keep -> Ret(Share(L, as[1].d[1]), <<>>)
         [] IsMember(fid) /\ b = m_add ->
                Ret(SetTarget(L, as[1], x + as[2].d[1]), <<HInt(x + as[2].d[1])>>)
         [] IsMember(fid) /\ b = m_foo -> Ret(L, <<HInt(2)>>)
         [] IsMember(fid) /\ b = m_get -> Ret(L, <<HInt(x)>>)
         [] IsMember(fid) /\ b = m_set -> Ret(SetTarget(L, as[1], as[2].d[1]), <<>>)
         [] IsMember(fid) /\ b = m_dynget -> Ret(L, <<HInt(x + Len(as[2].d))>>)
         [] IsMember(fid) /\ b = m_dynset ->
                Ret(SetTarget(L, as[1], as[3].d[1] + Len(as[2].d)), <<>>)

\* catch (...) { Pusher<std::exception_ptr>::push(state, std::current_exception());
\*               return lua_error(state); }
CatchAllToLuaError(L) ==
    IF L.status # "throw" THEN L
    ELSE lua_error(Run("PushObject", [L EXCEPT !.status = "ok"], <<T_exception_ptr, HExcPtr(L.exc)>>))

S_tupleName == <<116, 117, 112, 108, 101>>  \* typeid(std::tuple<...>).name(), written "tuple"

\* Pusher<TReturnType (TParameters...)>::callback(state, toCall, argumentsCount)
callback(L, toCall, argumentsCount) ==
    LET fid == toCall.d[1]
        ps == FnParams(toCall)
        Raised(Lx) == IF Lx.status = "throw" THEN Logged(Lx, "threw", fid, Lx.exc) ELSE Lx
        Arity(msg, n) ==
            lua_error(lua_concat(lua_pushstring(lua_pushnumber(lua_pushstring(
                luaL_where(L, 1), msg), n, 0), S_Params), 4))
        Ld == Run("TupleReadSafe", Logged(L, "decode", fid, <<>>), <<ps, 1, <<-argumentsCount, argumentsCount>>>>)
        Lw == [Raised(Ld) EXCEPT !.status = "ok"]
        Li == Invoke(Ld, fid, Ld.ret)
        result == IF FnRet(fid).k = "void" THEN HTuple(<<>>) ELSE HTuple(Li.ret)
        Lp == Run("Pusher", Li, <<Tupleizer(IF FnRet(fid).k = "void" THEN T_void ELSE T_tuple(<<FnRet(fid)>>)), result>>)
    IN IF ~Ok(L) THEN L
       ELSE IF argumentsCount < ArgsMin(ps) THEN Arity(S_AtLeast, ArgsMin(ps))
       ELSE IF argumentsCount > ArgsMax(ps) THEN Arity(S_AtMost, ArgsMax(ps))
       ELSE IF Ld.status = "throw" /\ Ld.exc[1].k = "WrongTypeException"
            THEN lua_error(lua_concat(lua_pushstring(lua_pushstring(lua_pushstring(lua_pushstring(
                     luaL_where(Lw, 1), S_Unable), Ld.exc[1].d), S_to), S_tupleName), 4))
       ELSE IF ~Ok(Ld) THEN Ld
       ELSE IF Ok(Lp) THEN Returns(ReleaseAll(Lp, Ld.ret), Lp.nret)
       ELSE CatchAllToLuaError(Raised(Lp))

\* registry[&typeid(T)][slot] pushed, as the handlers look it up
Slot(L, ty, n) ==
    lua_gettable(lua_pushinteger(
        lua_gettable(lua_pushlightuserdata(L, TypeId(ty)), LUA_REGISTRYINDEX), n), -2)

\* Pusher<TType>::push indexFunction
indexFunction(L, ty) ==
    LET L0 == lua_gettable(lua_pushvalue(Slot(L, ty, 0), 2), -2)
        L1 == lua_gettable(lua_pushvalue(lua_gettable(lua_pushinteger(lua_pop(L0, 2), 1), -2), 2), -2)
        L2 == lua_gettable(lua_pushinteger(lua_pop(L1, 2), 2), -2)
    IN IF ~Ok(L) THEN L
       ELSE IF ~Ok(L0) THEN L0
       ELSE IF ~lua_isnil(L0, -1) THEN Returns(L0, 1)
       ELSE IF ~Ok(L1) THEN L1
       ELSE IF ~lua_isnil(L1, -1)
            THEN CatchAllToLuaError(Returns(Run("callRaw", lua_pushvalue(L1, 1), <<1, 1>>), 1))
       ELSE IF ~Ok(L2) THEN L2
       ELSE IF lua_isnil(L2, -1) THEN Returns(L2, 1)
       ELSE CatchAllToLuaError(Returns(Run("callRaw", lua_pushvalue(lua_pushvalue(L2, 1), 2), <<2, 1>>), 1))

\* Pusher<TType>::push newIndexFunction
newIndexFunction(L, ty) ==
    LET Lr == lua_rawget(lua_pushlightuserdata(L, TypeId(ty)), LUA_REGISTRYINDEX)
        L4 == lua_rawget(lua_pushvalue(lua_rawget(lua_pushinteger(Lr, 4), -2), 2), -2)
        L5 == lua_rawget(lua_pushinteger(lua_pop(L4, 2), 5), -2)
    IN IF ~Ok(L) THEN L
       ELSE IF ~Ok(L4) THEN L4
       ELSE IF ~lua_isnil(L4, -1)
            THEN CatchAllToLuaError(
                     Returns(lua_pop(Run("callRaw", lua_pushvalue(lua_pushvalue(L4, 1), 3), <<2, 0>>), 2), 0))
       ELSE IF ~Ok(L5) THEN L5
       ELSE IF lua_isnil(L5, -1) THEN lua_error(lua_pushstring(lua_pop(L5, 2), S_NoSetter))
       ELSE CatchAllToLuaError(
                Returns(lua_pop(Run("callRaw", lua_pushvalue(lua_pushvalue(lua_pushvalue(L5, 1), 2), 3), <<3, 0>>), 1), 0))

(***************************** scripts **************************************)
\* A chunk is one statement:
\*   "call"    return x(args)            "calln"  dst... = x(args)
\*   "method"  return x:y(args)          "get"    return x.y
\*   "getn"    dst[1] = x.y              "set"    x.y = args[1]
\*   "def"     x = function(i) return i + args[1] end
\*   "callv"   return x(y, args)         with y the name of a global
Stmt(op, x, y, args, dst) == [x |-> x, y |-> y, args |-> args, op |-> op, dst |-> dst]
MaxArgs == MaxParams + 1
C_callTrue == MaxArgs + 2
C_assign4 == MaxArgs + 3
C_nest == MaxArgs + 4
C_methodValue == MaxArgs + 5
C_methodFoo == MaxArgs + 6
C_getValue == MaxArgs + 7
C_getOther == MaxArgs + 8
C_keepValue == MaxArgs + 9
C_setValue == MaxArgs + 10
C_setOther == MaxArgs + 11
C_defFoo2 == MaxArgs + 12
C_defFoo5 == MaxArgs + 13
C_keepFoo == MaxArgs + 14
C_incA == MaxArgs + 15
C_setA3 == MaxArgs + 16
C_setA18 == MaxArgs + 17
S_d == <<100>>  \* "d"
S_g == <<103>>  \* "g"
S_x == <<120>>  \* "x"
\* chunk n + 1, for n in 0..MaxArgs, is "return f(1, ..., n)"
ChunkDef(id) ==
    IF id <= MaxArgs + 1 THEN Stmt("call", S_f, <<>>, [k \in 1..(id - 1) |-> Num(k, 0)], <<>>)
    ELSE IF id = C_callTrue THEN Stmt("call", S_f, <<>>, <<Bool(TRUE)>>, <<>>)
    ELSE IF id = C_assign4 THEN Stmt("calln", S_f, <<>>, <<Num(2, 0)>>, <<S_a, S_b, S_c, S_d>>)
    ELSE IF id = C_nest THEN Stmt("call", S_g, <<>>, <<Str(S_x)>>, <<>>)
    ELSE IF id = C_methodValue THEN Stmt("method", S_obj, S_value, <<Num(3, 0)>>, <<>>)
    ELSE IF id = C_methodFoo THEN Stmt("method", S_obj, S_foo, <<>>, <<>>)
    ELSE IF id = C_getValue THEN Stmt("get", S_obj, S_value, <<>>, <<>>)
    ELSE IF id = C_getOther THEN Stmt("get", S_obj, S_other, <<>>, <<>>)
    ELSE IF id = C_keepValue THEN Stmt("getn", S_obj, S_value, <<>>, <<S_a>>)
    ELSE IF id = C_setValue THEN Stmt("set", S_obj, S_value, <<Num(5, 0)>>, <<>>)
    ELSE IF id = C_setOther THEN Stmt("set", S_obj, S_other, <<Num(5, 0)>>, <<>>)
    ELSE IF id = C_defFoo2 THEN Stmt("def", S_foo, <<>>, <<Num(2, 0)>>, <<>>)
    ELSE IF id = C_defFoo5 THEN Stmt("def", S_foo, <<>>, <<Num(5, 0)>>, <<>>)
    ELSE IF id = C_keepFoo THEN Stmt("callv", S_g, S_foo, <<Num(7, 0)>>, <<>>)
    ELSE IF id = C_setA3 THEN Stmt("assign", S_a, <<>>, <<Num(3, 0)>>, <<>>)
    ELSE IF id = C_setA18 THEN Stmt("assign", S_a, <<>>, <<Num(18, 0)>>, <<>>)
    ELSE Stmt("callv", S_f, S_a, <<>>, <<>>)

RECURSIVE PushAll(_, _)
PushAll(L, xs) == IF xs = <<>> THEN L ELSE PushAll(Push(L, xs[1]), Tail(xs))
RECURSIVE SetGlobals(_, _)
SetGlobals(L, names) ==
    IF names = <<>> THEN L
    ELSE SetGlobals(lua_setglobal(L, names[Len(names)]), SubSeq(names, 1, Len(names) - 1))

\* the Lua interpreter running one chunk in its own frame; the values it returns
\* are the top L.nret slots
RunChunk(L, st) ==
    LET Lg == lua_getglobal(L, st.x)
        o == At(Lg, -1)
        Lcall(nres) == Run("luaD_call", PushAll(Lg, st.args), <<Len(st.args), nres>>)
        Lm == Run("luaD_call", PushAll(Push(Run("luaV_gettable", Lg, <<o, Str(st.y)>>), o), st.args), <<Len(st.args) + 1, LUA_MULTRET>>)
        Counted(Lx) == IF ~Ok(Lx) THEN Lx
                       ELSE [Lx EXCEPT !.nret = Len(Lx.stack) - Len(L.stack),
                                       !.cnt = Len(Lx.stack) - Len(L.stack)]
    IN CASE st.op = "call" -> Counted(Lcall(LUA_MULTRET))
         [] st.op = "calln" -> Returns(SetGlobals(Lcall(Len(st.dst)), st.dst), 0)
         [] st.op = "method" -> Returns(Lm, Len(Lm.stack) - Len(Lg.stack))
         [] st.op = "get" -> Returns(Run("luaV_gettable", Lg, <<o, Str(st.y)>>), 1)
         [] st.op = "getn" ->
                Returns(SetGlobals(Run("luaV_gettable", Lg, <<o, Str(st.y)>>), st.dst), 0)
         [] st.op = "set" -> Returns(Run("luaV_settable", Lg, <<o, Str(st.y), st.args[1]>>), 0)
         [] st.op = "assign" -> Returns(lua_setglobal(Push(L, st.args[1]), st.x), 0)
         [] st.op = "def" -> Returns(lua_setglobal(Push(L, Fun(<<F_luaAdd, st.args[1].v[1]>>)), st.x), 0)
         [] st.op = "callv" ->
                Counted(Run("luaD_call", PushAll(lua_getglobal(Lg, st.y), st.args), <<Len(st.args) + 1, LUA_MULTRET>>))

\* a C function or a chunk, entered with its arguments as the whole frame
CallFunction(L, f) ==
    CASE f.v[1] = F_function -> Run("callback", L, <<L.uds[f.v[2]].obj, lua_gettop(L)>>)
      [] f.v[1] = F_callCallback ->
             Run("callback", L, <<L.uds[At(L, 1).v[1]].obj, lua_gettop(L) - 1>>)
      [] f.v[1] = F_indexFunction -> indexFunction(L, TypeOfId(<<f.v[2], f.v[3]>>))
      [] f.v[1] = F_newIndexFunction -> newIndexFunction(L, TypeOfId(<<f.v[2], f.v[3]>>))
      [] f.v[1] = F_chunk -> RunChunk(L, ChunkDef(f.v[2]))
      \* ptr->~TType(): fin counts the runs of the destructor of the object in the userdata
      [] f.v[1] = F_garbage -> Returns([L EXCEPT !.uds[At(L, 1).v[1]].fin = @ + 1], 0)
      [] f.v[1] = F_luaAdd ->
             IF lua_isnumber(L, 1)
             THEN Returns(lua_pushnumber(L, lua_tonumber(L, 1).v[1] + f.v[2], lua_tonumber(L, 1).v[2]), 1)
             ELSE LuaError(L, Str(S_attemptArith))

(***************************** garbage collection ***************************)
\* the values a value refers to
Refs(L, x) ==
    IF x.t = "table"
    THEN DOMAIN TabOf(L, x).h \cup {TabOf(L, x).h[k] : k \in DOMAIN TabOf(L, x).h}
         \cup (IF MetaOf(L, x) = 0 THEN {} ELSE {Tab(MetaOf(L, x))})
    ELSE IF x.t = "userdata" THEN (IF MetaOf(L, x) = 0 THEN {} ELSE {Tab(MetaOf(L, x))})
    ELSE IF x.t = "function" /\ x.v[1] = F_function THEN {UD(x.v[2])}
    ELSE {}
RECURSIVE Marked(_, _)
Marked(L, S) ==
    LET N == S \cup UNION {Refs(L, x) : x \in S}
    IN IF N = S THEN S ELSE Marked(L, N)
\* what the collector finds alive: all that the registry and the stack lead to
Reachable(L) == Marked(L, {Tab(RegistryTable)} \cup {L.stack[i] : i \in DOMAIN L.stack})
\* GCTM and the release of a userdata: its __gc metamethod, if it was marked for
\* finalization, runs on it; then its memory is freed
GCTM(L, id) ==
    LET h == MetaField(L, UD(id), S_gc)
        Lf == IF L.uds[id].fz /\ h.t = "function"
              THEN Run("luaD_call", Push(Push(L, h), UD(id)), <<1, 0>>) ELSE L
    IN IF ~Ok(Lf) THEN Lf ELSE [Lf EXCEPT !.uds[id].gone = TRUE]
\* lua_close: every object still allocated is finalized and freed
RECURSIVE CloseFrom(_, _)
CloseFrom(L, id) ==
    IF ~Ok(L) \/ id > Len(L.uds) THEN L
    ELSE CloseFrom(IF L.uds[id].gone THEN L ELSE GCTM(L, id), id + 1)
lua_close(L) == [CloseFrom(L, 1) EXCEPT !.closed = TRUE]

(***************************** the public operations ************************)
\* LuaContext::writeVariable(name, data)
writeVariable(L, name, ty, v) ==
    LET Lg == lua_pushglobaltable(L)
        Ls == lua_setfield(Run("Pusher", Lg, <<ty, v>>), -2, name)
    IN lua_pop(CatchPopRethrow(Ls, 1), 1)

\* LuaContext::writeVariable(name, index, data): setTable<-1>(state, name, index, data)
\* looks name up in the globals table and sets [index] of what it finds
writeVariableAt(L, name, index, ty, v) ==
    LET Lg == lua_pushglobaltable(L)
        Lt == lua_gettable(lua_pushstring(Lg, name), -2)
        Li == Run("Pusher", Lt, <<T_int, index>>)
        Ld == CatchPopRethrow(Run("Pusher", Li, <<ty, v>>), 1)
        Ls == lua_settable(Ld, -3)
    IN lua_pop(CatchPopRethrow(lua_pop(CatchPopRethrow(Ls, 1), 1), 1), 1)

\* LuaContext::lookIntoStackTop(state, offsets...)
lookIntoStackTop(L, offsets) ==
    IF offsets = <<>> THEN L
    ELSE Run("lookIntoStackTop", lua_remove(lua_gettable(Run("Pusher", L, <<T_int, offsets[1]>>), -2), -2), <<Tail(offsets)>>)

\* LuaContext::readVariable<TType>(name, nestedElements...)
readVariable(L, name, offsets, ty) ==
    Run("readTopAndPop", Run("lookIntoStackTop", lua_getglobal(L, name), <<offsets>>), <<ty, 1>>)

\* LuaContext::executeCode<TType>(code)
executeCode(L, chunk, ty) == Run("call", load(L, chunk), <<ty, <<>>, <<>>>>)

(***************************** threads **************************************)
Thread(t) == [t |-> "thread", v |-> <<t>>]
\* the lua_State of thread t: its own stack, everything else shared with the main state
OnThread(L, t) == [L EXCEPT !.stack = L.threads[t], !.threads[t] = L.stack]
lua_newthread(L) == Push([L EXCEPT !.threads = Append(@, <<>>)], Thread(Len(L.threads) + 1))

\* LuaContext::createThread()
createThread(L) == lua_pop(ValueInRegistry(lua_newthread(L), 0), 1)

\* LuaContext::forkGlobals(id), on id.state
forkGlobals(L, t) ==
    LET Lt == lua_newtable(lua_newtable(OnThread(L, t)))
        Li == lua_pushglobaltable(lua_pushstring(Lt, S_index))
        Lm == lua_setmetatable(lua_settable(Li, -3), -2)
    IN OnThread(lua_settable(lua_pushinteger(Lm, LUA_RIDX_GLOBALS), LUA_REGISTRYINDEX), t)

\* executeCode(thread, code): the chunk is loaded and called on thread.state
executeCodeThread(L, t, chunk, ty) ==
    OnThread(Run("call", load(OnThread(L, t), chunk), <<ty, <<>>, <<>>>>), t)

\* readVariable<TType>(thread, name): the global is looked up on thread.state
readVariableThread(L, t, name, ty) ==
    OnThread(Run("readTopAndPop", lua_getglobal(OnThread(L, t), name), <<ty, 1>>), t)

\* LuaFunctionCaller<int (int)>::operator()(x) on the handle sharing holder id
invokeCaller(L, id, x) == Run("call", ValueInRegistryPop(L, id), <<T_int, <<T_int>>, <<HInt(x)>>>>)

\* setTable<LUA_REGISTRYINDEX, Sig>(state, &typeid(T), slot, name, fn)
setTableNamed(L, ty, slot, name, fn) ==
    LET L1 == lua_gettable(lua_pushlightuserdata(L, TypeId(ty)), LUA_REGISTRYINDEX)
        L2 == lua_gettable(lua_pushinteger(L1, slot), -2)
        L3 == lua_setfield(Run("Pusher", L2, <<T_function(fn.d[1]), fn>>), -2, name)
    IN lua_pop(CatchPopRethrow(lua_pop(CatchPopRethrow(L3, 1), 1), 1), 1)
\* setTable<LUA_REGISTRYINDEX, Sig>(state, &typeid(T), slot, fn)
setTableSlot(L, ty, slot, fn) ==
    LET L1 == lua_gettable(lua_pushlightuserdata(L, TypeId(ty)), LUA_REGISTRYINDEX)
        L2 == CatchPopRethrow(Run("Pusher", lua_pushinteger(L1, slot), <<T_function(fn.d[1]), fn>>), 1)
    IN lua_pop(CatchPopRethrow(lua_settable(L2, -3), 1), 1)

\* a registration that reaches the table of the value shape only
registerFunctionImpl_ValueOnly(L, name, fid, shape) ==
    IF shape > 0 THEN L
    ELSE Run("setTableNamed", Run("checkTypeRegistration", L, <<Shaped(shape, Foo)>>), <<Shaped(shape, Foo), 0, name, HFn(fid + shape, 1)>>)
\* LuaContext::registerFunctionImpl(functionName, function, tag<TObject>, ...)
registerFunctionImpl(L, name, fid, shape) ==
    IF shape > 2 THEN L
    ELSE Run("registerFunctionImpl", Run("setTableNamed", Run("checkTypeRegistration", L, <<Shaped(shape, Foo)>>), <<Shaped(shape, Foo), 0, name, HFn(fid + shape, 1)>>), <<name, fid, shape + 1>>)

\* LuaContext::unregisterFunction<TType>(functionName)
unregisterFunction(L, name, shape) ==
    IF shape > 2 THEN L
    ELSE Run("unregisterFunction", Run("checkTypeRegistration", lua_settable(lua_pushnil(lua_pushlightuserdata(L, TypeId(Shaped(shape, Foo)))),
                              LUA_REGISTRYINDEX), <<Shaped(shape, Foo)>>), <<name, shape + 1>>)

\* LuaContext::registerMemberImpl<TObject,TVarType>(name, readFunction): the getters
registerGetters(L, name, shape) ==
    IF shape >= Shapes THEN L
    ELSE Run("registerGetters", Run("setTableNamed", Run("checkTypeRegistration", L, <<Shaped(shape, Foo)>>), <<Shaped(shape, Foo), 1, name, HFn(m_get + shape, 1)>>), <<name, shape + 1>>)
\* LuaContext::registerMemberImpl<TObject,TVarType>(name, readFunction, writeFunction)
registerSetters(L, name, shape) ==
    IF shape > 2 THEN L
    ELSE Run("registerSetters", Run("setTableNamed", L, <<Shaped(shape, Foo), 4, name, HFn(m_set + shape, 1)>>), <<name, shape + 1>>)
registerMemberImpl(L, name, writable) ==
    IF writable THEN Run("registerSetters", Run("registerGetters", L, <<name, 0>>), <<name, 0>>)
    ELSE Run("registerGetters", L, <<name, 0>>)

\* LuaContext::registerMemberImpl<TObject,TVarType>(readFunction): the default getters
registerDefaultGetters(L, shape) ==
    IF shape >= Shapes THEN L
    ELSE Run("registerDefaultGetters", Run("setTableSlot", Run("checkTypeRegistration", L, <<Shaped(shape, Foo)>>), <<Shaped(shape, Foo), 2, HFn(m_dynget + shape, 1)>>), <<shape + 1>>)
\* LuaContext::registerMemberImpl<TObject,TVarType>(readFunction, writeFunction)
registerDefaultMemberImpl(L, writable) ==
    LET Lg == Run("registerDefaultGetters", L, <<0>>)
    IN IF ~writable THEN Lg
       ELSE Run("setTableSlot", Run("setTableSlot", Run("setTableSlot", Lg, <<T_obj(Foo), 5, HFn(m_dynset, 1)>>), <<T_ptr(Foo), 2, HFn(m_dynset + 1, 1)>>), <<T_shared(Foo), 2, HFn(m_dynset + 2, 1)>>)

\* Control transfer between the routines of the library: Run(f, L, a) is the
\* call of routine f on interpreter state L with further arguments a.
Run(f, L, a) ==
  IF ~Ok(L) THEN L ELSE
  CASE    f = "luaV_gettable" -> luaV_gettable(L, a[1], a[2])
       [] f = "luaV_settable" -> luaV_settable(L, a[1], a[2], a[3])
       [] f = "luaD_call" -> luaD_call(L, a[1], a[2])
       [] f = "CallFunction" -> CallFunction(L, a[1])
       [] f = "callback" -> callback(L, a[1], a[2])
       [] f = "Pusher" -> Pusher(L, a[1], a[2])
       [] f = "PushObject" -> PushObject(L, a[1], a[2])
       [] f = "PushPairs" -> PushPairs(L, a[1], a[2], a[3])
       [] f = "PushSeq" -> PushSeq(L, a[1], a[2], a[3])
       [] f = "push2" -> push2(L, a[1], a[2], a[3])
       [] f = "checkTypeRegistration" -> checkTypeRegistration(L, a[1])
       [] f = "testRead" -> testRead(L, a[1], a[2])
       [] f = "TraverseTest" -> TraverseTest(L, a[1], a[2], a[3])
       [] f = "readSafe" -> readSafe(L, a[1], a[2])
       [] f = "TupleReadSafe" -> TupleReadSafe(L, a[1], a[2], a[3])
       [] f = "readTopAndPop" -> readTopAndPop(L, a[1], a[2])
       [] f = "callRaw" -> callRaw(L, a[1], a[2])
       [] f = "call" -> call(L, a[1], a[2], a[3])
       [] f = "lookIntoStackTop" -> lookIntoStackTop(L, a[1])
       [] f = "setTableNamed" -> setTableNamed(L, a[1], a[2], a[3], a[4])
       [] f = "setTableSlot" -> setTableSlot(L, a[1], a[2], a[3])
       [] f = "registerFunctionImpl" -> registerFunctionImpl(L, a[1], a[2], a[3])
       [] f = "unregisterFunction" -> unregisterFunction(L, a[1], a[2])
       [] f = "registerGetters" -> registerGetters(L, a[1], a[2])
       [] f = "registerSetters" -> registerSetters(L, a[1], a[2])
       [] f = "registerDefaultGetters" -> registerDefaultGetters(L, a[1])
       [] f = "registerMemberImpl" -> registerMemberImpl(L, a[1], a[2])
       [] f = "registerDefaultMemberImpl" -> registerDefaultMemberImpl(L, a[1])
       [] f = "writeVariable" -> writeVariable(L, a[1], a[2], a[3])
       [] f = "writeVariableAt" -> writeVariableAt(L, a[1], a[2], a[3], a[4])
       [] f = "readVariable" -> readVariable(L, a[1], a[2], a[3])
       [] f = "invokeCaller" -> invokeCaller(L, a[1], a[2])
       [] f = "GCTM" -> GCTM(L, a[1])
       [] f = "lua_close" -> lua_close(L)
       [] f = "createThread" -> createThread(L)
       [] f = "forkGlobals" -> forkGlobals(L, a[1])
       [] f = "executeCodeThread" -> executeCodeThread(L, a[1], a[2], a[3])
       [] f = "readVariableThread" -> readVariableThread(L, a[1], a[2], a[3])


(***************************** slot counts **********************************)
RECURSIVE minSize(_)
RECURSIVE maxSize(_)
\* PusherTotalMinSize<TTypes...>::size and PusherTotalMaxSize<TTypes...>::size
RECURSIVE PusherTotalMinSize(_)
PusherTotalMinSize(ts) ==
    IF ts = <<>> THEN 0 ELSE minSize(ts[1]) + PusherTotalMinSize(Tail(ts))
RECURSIVE PusherTotalMaxSize(_)
PusherTotalMaxSize(ts) ==
    IF ts = <<>> THEN 0 ELSE maxSize(ts[1]) + PusherTotalMaxSize(Tail(ts))
\* PusherMinSize<TTypes...>::size and PusherMaxSize<TTypes...>::size
RECURSIVE PusherMinSize(_)
PusherMinSize(ts) ==
    IF ts = <<>> THEN 0
    ELSE IF minSize(ts[1]) < PusherTotalMaxSize(Tail(ts)) THEN minSize(ts[1])
    ELSE PusherMinSize(Tail(ts))
RECURSIVE PusherMaxSize(_)
PusherMaxSize(ts) ==
    IF ts = <<>> THEN 0
    ELSE IF maxSize(ts[1]) > PusherTotalMaxSize(Tail(ts)) THEN maxSize(ts[1])
    ELSE PusherMaxSize(Tail(ts))
\* Pusher<T>::minSize and Pusher<T>::maxSize
minSize(ty) ==
    IF ty.k = "tuple" THEN PusherTotalMinSize(ty.a)
    ELSE IF ty.k = "optional" THEN (IF minSize(ty.a[1]) < 1 THEN minSize(ty.a[1]) ELSE 1)
    ELSE IF ty.k = "variant" THEN PusherMinSize(ty.a)
    ELSE 1
maxSize(ty) ==
    IF ty.k = "tuple" THEN PusherTotalMaxSize(ty.a)
    ELSE IF ty.k = "optional" THEN (IF maxSize(ty.a[1]) > 1 THEN maxSize(ty.a[1]) ELSE 1)
    ELSE IF ty.k = "variant" THEN PusherMaxSize(ty.a)
    ELSE 1
\* the static_assert of setTable on its data (and on its index): one slot exactly
SingleSlot(ty) == minSize(ty) = 1 /\ maxSize(ty) = 1

(***************************** the state machine ****************************)
\* operations of a program that writes and reads, or calls functions
MaxSteps == 2
\* operations of a program whose functions run scripts themselves
MaxNestSteps == 3
\* operations of a program that binds objects
MaxObjSteps == 3
\* operations of a program that registers and unregisters functions
MaxRegSteps == 5

\* host memory: cell 1 is the Foo a raw pointer designates, cell 2 the Foo a
\* shared_ptr designates, cell 3 the Foo the host program passes by value
HostOriginal == 3
InitL ==
    [status |-> "ok", stack |-> <<>>, base |-> 0, errv |-> Nil, exc |-> <<>>,
     tabs |-> <<[h |-> RawSet(EmptyTab, Num(LUA_RIDX_GLOBALS, 0), Tab(GlobalsTable)), mt |-> 0],
                [h |-> EmptyTab, mt |-> 0]>>,
     uds |-> <<>>, nret |-> 0, rc |-> 0, junk |-> "nil", ret |-> <<>>,
     mem |-> <<HObj(Foo, 10), HObj(Foo, 10), HObj(Foo, 10)>>,
     log |-> <<>>, cnt |-> 0, holders |-> <<>>, closed |-> FALSE, threads |-> <<>>, fault |-> 0]

NoOp ==
    [exc |-> <<>>, name |-> <<>>, ty |-> T_void, ret |-> <<>>, log |-> <<>>, chunk |-> 0,
     op |-> "none", cnt |-> 0, offsets |-> <<>>, val |-> HNone, kind |-> "return",
     d0 |-> 0, d1 |-> 0, arg |-> 0]

\* a host program performing at most n operations on a fresh context
Start(n) ==
    /\ lua = InitL
    /\ last = NoOp
    /\ steps = n
    /\ registered = [fns |-> {}, member |-> 0, default |-> 0, forked |-> {}, wrote |-> {}]

\* how an operation ends for the host: it returns, it throws, the runtime panics
\* (an error outside any protected call ends the process), or behaviour is undefined
Outcome(L) ==
    IF L.status = "ok" THEN "return" ELSE IF L.status = "throw" THEN "throw"
    ELSE IF L.status = "ub" THEN "ub" ELSE "panic"
\* a T& read out of the runtime is copied by the caller
Copied(L, r) == IF r # <<>> /\ r[1].k = "ref" THEN <<L.uds[r[1].d[2]].obj>> ELSE r
Settle(L) ==
    [L EXCEPT !.status = IF Outcome(L) \in {"return", "throw"} THEN "ok" ELSE Outcome(L),
              !.errv = Nil, !.exc = <<>>, !.ret = <<>>, !.nret = 0, !.rc = 0,
              !.log = <<>>, !.cnt = 0, !.junk = "nil", !.fault = 0,
              !.base = 0]
Done(info, L) ==
    /\ lua' = Settle(L)
    /\ last' = [info EXCEPT !.kind = Outcome(L),
                            !.ret = IF Ok(L) THEN Copied(L, L.ret) ELSE <<>>,
                            !.exc = IF L.status = "throw" THEN L.exc ELSE <<>>,
                            !.log = L.log, !.cnt = L.cnt,
                            !.d0 = Len(lua.stack), !.d1 = Len(L.stack)]
    /\ steps' = steps - 1
Alive == Ok(lua) /\ steps > 0 /\ ~lua.closed
JunkTypes == {"nil", "function"}
Entered(j) == [lua EXCEPT !.junk = j]

\* the values the host program writes, with their static types
Foo1 == HObj(Foo, 10)
DataValues ==
    { <<T_bool, HBool(TRUE)>>, <<T_bool, HBool(FALSE)>>,
      <<T_int, HInt(0)>>, <<T_int, HInt(12)>>, <<T_int, HInt(-3)>>,
      <<T_double, HFloat(2, 1)>>, <<T_double, HFloat(-1, 1)>>, <<T_double, HFloat(4, 0)>>,
      <<T_string, HStr(<<>>)>>, <<T_string, HStr(S_hello)>>, <<T_string, HStr(S_12)>>,
      <<T_string, HStr(S_a0b)>>, <<T_string, HStr(S_2p5)>>,
      <<T_map(T_string, T_int), HMap(<<>>)>>,
      <<T_map(T_string, T_int), HMap(<<HPair(HStr(S_a), HInt(1)), HPair(HStr(S_b), HInt(2))>>)>>,
      <<T_map(T_int, T_double), HMap(<<HPair(HInt(1), HFloat(1, 0)), HPair(HInt(2), HFloat(2, 1))>>)>>,
      <<T_unordered_map(T_string, T_string),
        HV("unordered_map", <<>>, <<HPair(HStr(S_12), HStr(S_12)), HPair(HStr(S_a), HStr(S_x))>>)>>,
      <<T_optional(T_int), HEmpty>>, <<T_optional(T_int), HSome(HInt(3))>>,
      <<T_optional(T_string), HSome(HStr(S_hello))>> }
ObjectValues ==
    { <<T_obj(Foo), Foo1>>, <<T_ptr(Foo), HPtr(Foo, 1)>>, <<T_shared(Foo), HShared(Foo, 2)>>,
      <<T_obj(Bar), HObj(Bar, 10)>> }
ReadTypes ==
    { T_bool, T_int, T_double, T_string,
      T_map(T_string, T_int), T_map(T_int, T_double), T_map(T_int, T_int),
      T_unordered_map(T_string, T_string), T_unordered_map(T_string, T_int),
      T_vector_pair(T_int, T_int),
      T_optional(T_int), T_optional(T_string), T_caller,
      T_variant(<<T_bool, T_int, T_string>>), T_variant(<<T_bool, T_int, T_ptr(Foo)>>),
      T_variant(<<T_string, T_int>>), T_variant(<<T_double, T_int>>),
      T_obj(Foo), T_ptr(Foo), T_shared(Foo), T_obj(Bar), T_ptr(Bar) }
Offsets == {<<>>, <<HInt(1)>>}
RECURSIVE SigCodes(_)
SigCodes(n) ==
    IF n = 0 THEN {<<>>}
    ELSE SigCodes(n - 1) \cup {Append(c, x) : c \in {c \in SigCodes(n - 1) : Len(c) = n - 1}, x \in {1, 2}}
FunctionValues ==
    {HFn(fid, triv) : fid \in {f_inc, f_variadic, f_triple, f_thrower, f_noop, f_bomb}, triv \in {0, 1}}
    \cup {HV("function", <<f_sig, 1>> \o c, <<>>) : c \in SigCodes(MaxParams)}
CallChunks == 1..C_assign4
ObjChunks == C_methodValue..C_setOther
ExecTypes == {T_tuple(<<>>), T_int}

\* the argument of writeVariable(name, data): a Foo by value is the host's own Foo,
\* passed by reference
Passed(tv) == IF tv[1] = T_obj(Foo) THEN lua.mem[HostOriginal] ELSE tv[2]
WriteVariable(name, tv) ==
    /\ Alive
    /\ Done([NoOp EXCEPT !.op = "writeVariable", !.name = name, !.ty = tv[1], !.val = Passed(tv)],
            Run("writeVariable", lua, <<name, tv[1], Passed(tv)>>))
    /\ UNCHANGED registered

WriteVariableAt(name, index, tv) ==
    /\ Alive
    /\ Done([NoOp EXCEPT !.op = "writeVariable", !.name = name, !.offsets = <<index>>,
                         !.ty = tv[1], !.val = Passed(tv)],
            Run("writeVariableAt", lua, <<name, index, tv[1], Passed(tv)>>))
    /\ UNCHANGED registered

ReadVariable(name, offsets, ty, j) ==
    /\ Alive
    /\ Done([NoOp EXCEPT !.op = "readVariable", !.name = name, !.offsets = offsets, !.ty = ty],
            Run("readVariable", Entered(j), <<name, offsets, ty>>))
    /\ UNCHANGED registered

ExecuteCode(chunk, ty, j) ==
    /\ Alive
    /\ Done([NoOp EXCEPT !.op = "executeCode", !.chunk = chunk, !.ty = ty],
            executeCode(Entered(j), chunk, ty))
    /\ UNCHANGED registered

RegisterFunction(name) ==
    /\ Alive
    /\ Done([NoOp EXCEPT !.op = "registerFunction", !.name = name],
            Run("registerFunctionImpl", lua, <<name, IF name = S_foo THEN m_foo ELSE m_add, 0>>))
    /\ registered' = [registered EXCEPT !.fns = @ \cup {name}]

UnregisterFunction(name) ==
    /\ Alive
    /\ Done([NoOp EXCEPT !.op = "unregisterFunction", !.name = name],
            Run("unregisterFunction", lua, <<name, 0>>))
    /\ registered' = [registered EXCEPT !.fns = @ \ {name}]

\* registerMember(name, getter[, setter]); member: 0 none, 1 read-only, 2 read-write
RegisterMember(writable) ==
    /\ Alive
    /\ Done([NoOp EXCEPT !.op = "registerMember", !.name = S_value],
            Run("registerMemberImpl", lua, <<S_value, writable>>))
    /\ registered' = [registered EXCEPT !.member = IF writable THEN 2 ELSE IF @ = 2 THEN 2 ELSE 1]

\* registerMember(getter[, setter]), the default accessors
RegisterDefaultMember(writable) ==
    /\ Alive
    /\ Done([NoOp EXCEPT !.op = "registerDefaultMember"],
            Run("registerDefaultMemberImpl", lua, <<writable>>))
    /\ registered' = [registered EXCEPT !.default = IF writable THEN 2 ELSE IF @ = 2 THEN 2 ELSE 1]

\* the host program copies a LuaFunctionCaller it holds
CopyCaller(id) ==
    /\ Alive
    /\ Done([NoOp EXCEPT !.op = "copyCaller", !.val = HCaller(id)], Share(lua, id))
    /\ UNCHANGED registered
\* the host program destroys one of its copies
DestroyCaller(id) ==
    /\ Alive
    /\ Done([NoOp EXCEPT !.op = "destroyCaller", !.val = HCaller(id)], Release(lua, id))
    /\ UNCHANGED registered
\* the host program invokes a LuaFunctionCaller
InvokeCaller(id, x) ==
    /\ Alive
    /\ Done([NoOp EXCEPT !.op = "invokeCaller", !.val = HCaller(id), !.arg = x, !.ty = T_int],
            Run("invokeCaller", lua, <<id, x>>))
    /\ UNCHANGED registered

\* the collector frees a userdata nothing refers to any more
Collect(id) ==
    /\ Alive
    /\ ~lua.uds[id].gone /\ UD(id) \notin Reachable(lua)
    /\ Done([NoOp EXCEPT !.op = "collect", !.arg = id], Run("GCTM", lua, <<id>>))
    /\ UNCHANGED registered
\* LuaContext::~LuaContext()
DestroyContext ==
    /\ Alive
    /\ Done([NoOp EXCEPT !.op = "destroyContext"], Run("lua_close", lua, <<>>))
    /\ UNCHANGED registered

\* values written and read back
NextRW ==
    \/ \E tv \in DataValues \cup ObjectValues : WriteVariable(S_a, tv)
    \/ \E o \in Offsets, ty \in ReadTypes, j \in JunkTypes : ReadVariable(S_a, o, ty, j)
InitRW == Start(MaxSteps)
SpecRW == InitRW /\ [][NextRW]_vars

\* host functions called by scripts
NextFn ==
    \/ \E fn \in FunctionValues : WriteVariable(S_f, <<T_function(fn.d[1]), fn>>)
    \/ \E c \in CallChunks, ty \in ExecTypes, j \in JunkTypes : ExecuteCode(c, ty, j)
InitFn == Start(MaxSteps)
SpecFn == InitFn /\ [][NextFn]_vars

\* a host function that runs a script on the context that called it
NextNest ==
    \/ \E fid \in {f_inc, f_thrower} : WriteVariable(S_f, <<T_function(fid), HFn(fid, 1)>>)
    \/ WriteVariable(S_g, <<T_function(f_nest), HFn(f_nest, 1)>>)
    \/ \E c \in {1, C_callTrue, C_nest}, ty \in ExecTypes, j \in JunkTypes : ExecuteCode(c, ty, j)
InitNest == Start(MaxNestSteps)
SpecNest == InitNest /\ [][NextNest]_vars

\* bound objects, their methods and members
ChunkType(c) == IF c \in {C_setValue, C_setOther, C_keepValue} THEN T_tuple(<<>>) ELSE T_int
NextObj ==
    \/ \E tv \in ObjectValues : WriteVariable(S_obj, tv)
    \/ \E n \in {S_value, S_foo} : RegisterFunction(n)
    \/ \E w \in BOOLEAN : RegisterMember(w)
    \/ \E w \in BOOLEAN : RegisterDefaultMember(w)
    \/ \E c \in ObjChunks, j \in JunkTypes : ExecuteCode(c, ChunkType(c), j)
    \/ \E ty \in {T_obj(Foo), T_ptr(Foo), T_shared(Foo)} : ReadVariable(S_obj, <<>>, ty, "nil")
InitObj == Start(MaxObjSteps)
SpecObj == InitObj /\ [][NextObj]_vars

\* functions registered on a class and unregistered again
NextReg ==
    \/ \E tv \in ObjectValues : WriteVariable(S_obj, tv)
    \/ \E n \in {S_value, S_foo} : RegisterFunction(n)
    \/ \E n \in {S_value, S_foo} : UnregisterFunction(n)
    \/ \E c \in {C_methodValue, C_methodFoo} : ExecuteCode(c, T_int, "nil")
InitReg == Start(MaxRegSteps)
SpecReg == InitReg /\ [][NextReg]_vars

\* Lua functions read into callable handles, kept, copied, invoked and destroyed
MaxCallerSteps == 4
Held == {id \in DOMAIN lua.holders : lua.holders[id].n > 0}
NextCaller ==
    \/ \E c \in {C_defFoo2, C_defFoo5, C_keepFoo} : ExecuteCode(c, T_tuple(<<>>), "nil")
    \/ WriteVariable(S_foo, <<T_int, HInt(3)>>)
    \/ WriteVariable(S_g, <<T_function(f_keep), HFn(f_keep, 1)>>)
    \/ \E j \in JunkTypes : ReadVariable(S_foo, <<>>, T_caller, j)
    \/ \E id \in Held : CopyCaller(id)
    \/ \E id \in Held : DestroyCaller(id)
    \/ \E id \in Held, x \in {3} : InvokeCaller(id, x)
InitCaller == Start(MaxCallerSteps)
SpecCaller == InitCaller /\ [][NextCaller]_vars

\* closures and objects with destructors handed to the runtime, until it is destroyed
MaxGcSteps == 4
GcValues ==
    { <<T_function(f_inc), HFn(f_inc, 0)>>, <<T_function(f_inc), HFn(f_inc, 1)>>,
      <<T_function(f_thrower), HFn(f_thrower, 1)>>,
      <<T_shared(Foo), HShared(Foo, 2)>>, <<T_obj(Bar), HObj(Bar, 10)>>, <<T_obj(Foo), Foo1>>,
      <<T_int, HInt(3)>> }
NextGc ==
    \/ \E tv \in GcValues : WriteVariable(S_f, tv)
    \/ \E c \in {1, 2}, j \in JunkTypes : ExecuteCode(c, T_int, j)
    \/ \E id \in DOMAIN lua.uds : Collect(id)
    \/ DestroyContext
InitGc == Start(MaxGcSteps)
SpecGc == InitGc /\ [][NextGc]_vars

\* numbers read into int through each access mode of the Reader: testRead
\* (readVariable<int>), test and read (readVariable<std::tuple<int>>) and readSafe
\* (the parameter of a host function)
MaxNumSteps == 3
NumValues ==
    { <<T_int, HInt(0)>>, <<T_int, HInt(12)>>, <<T_int, HInt(-3)>>,
      <<T_double, HFloat(2, 1)>>, <<T_double, HFloat(-1, 1)>>, <<T_double, HFloat(4, 0)>>,
      <<T_double, HFloat(0, 1)>>, <<T_string, HStr(S_12)>>, <<T_bool, HBool(TRUE)>> }
NextNum ==
    \/ \E tv \in NumValues : WriteVariable(S_a, tv)
    \/ WriteVariable(S_f, <<T_function(f_inc), HFn(f_inc, 1)>>)
    \/ \E ty \in {T_int, T_double, T_tuple(<<T_int>>)}, j \in JunkTypes : ReadVariable(S_a, <<>>, ty, j)
    \/ \E j \in JunkTypes : ExecuteCode(C_incA, T_int, j)
InitNum == Start(MaxNumSteps)
SpecNum == InitNum /\ [][NextNum]_vars

\* sequences, sequences of pairs and values whose copy fails, written and read back
MaxSeqSteps == 2
HVecPair(pairs) == HV("vector_pair", <<>>, pairs)
SeqValues ==
    { <<T_vector(T_int), HVec(<<>>)>>, <<T_vector(T_int), HVec(<<HInt(7), HInt(8), HInt(7)>>)>>,
      <<T_vector(T_string), HVec(<<HStr(S_hello), HStr(S_x)>>)>>,
      <<T_vector(T_obj(Bomb)), HVec(<<HObj(Bomb, 0)>>)>>,
      <<T_map(T_string, T_obj(Bomb)), HMap(<<HPair(HStr(S_a), HObj(Bomb, 0))>>)>>,
      <<T_obj(Bomb), HObj(Bomb, 0)>>, <<T_int, HInt(3)>>,
      <<T_vector_pair(T_int, T_string),
        HVecPair(<<HPair(HInt(1), HStr(S_hello)), HPair(HInt(-23), HStr(S_x))>>)>>,
      <<T_vector_pair(T_int, T_int), HVecPair(<<HPair(HInt(1), HInt(10)), HPair(HInt(2), HInt(20))>>)>>,
      <<T_vector_pair(T_int, T_int), HVecPair(<<HPair(HInt(1), HInt(10)), HPair(HInt(1), HInt(20))>>)>> }
SeqTypes ==
    { T_vector(T_int), T_vector(T_string), T_vector_pair(T_int, T_string),
      T_vector_pair(T_int, T_int), T_map(T_int, T_int), T_int, T_string }
NextSeq ==
    \/ \E tv \in SeqValues : WriteVariable(S_a, tv)
    \/ \E tv \in SeqValues : WriteVariableAt(S_a, HInt(1), tv)
    \/ \E o \in Offsets, ty \in SeqTypes : ReadVariable(S_a, o, ty, "nil")
InitSeq == Start(MaxSeqSteps)
SpecSeq == InitSeq /\ [][NextSeq]_vars

\* threads created, their globals forked, and scripts run in them
MaxForkSteps == 4
MaxThreads == 2
CreateThread ==
    /\ Alive
    /\ Len(lua.threads) < MaxThreads
    /\ Done([NoOp EXCEPT !.op = "createThread"], Run("createThread", lua, <<>>))
    /\ UNCHANGED registered
ForkGlobals(t) ==
    /\ Alive
    /\ Done([NoOp EXCEPT !.op = "forkGlobals", !.arg = t], Run("forkGlobals", lua, <<t>>))
    /\ registered' = [registered EXCEPT !.forked = @ \cup {t}]
ExecuteCodeThread(t, chunk) ==
    /\ Alive
    /\ Done([NoOp EXCEPT !.op = "executeCodeThread", !.arg = t, !.chunk = chunk],
            Run("executeCodeThread", lua, <<t, chunk, T_tuple(<<>>)>>))
    /\ registered' = [registered EXCEPT !.wrote = @ \cup {t}]
ReadVariableThread(t, name, ty) ==
    /\ Alive
    /\ Done([NoOp EXCEPT !.op = "readVariableThread", !.arg = t, !.name = name, !.ty = ty],
            Run("readVariableThread", lua, <<t, name, ty>>))
    /\ UNCHANGED registered
ForkValues == {<<T_string, HStr(S_hello)>>, <<T_int, HInt(12)>>}
NextFork ==
    \/ \E tv \in ForkValues : WriteVariable(S_a, tv)
    \/ CreateThread
    \/ \E t \in 1..Len(lua.threads) : ForkGlobals(t)
    \/ \E t \in 1..Len(lua.threads), c \in {C_setA3, C_setA18} : ExecuteCodeThread(t, c)
    \/ \E t \in 1..Len(lua.threads), ty \in {T_int, T_string} : ReadVariableThread(t, S_a, ty)
    \/ \E ty \in {T_int, T_string} : ReadVariable(S_a, <<>>, ty, "nil")
InitFork == Start(MaxForkSteps)
SpecFork == InitFork /\ [][NextFork]_vars

\* a program that instantiates Pusher<boost::variant<...>> on a list of alternatives,
\* then setTable with that variant as its data type
MaxAlts == 3
AltTypes == {T_int, T_string, T_tuple(<<>>), T_tuple(<<T_int, T_int>>), T_optional(T_int)}
RECURSIVE AltLists(_)
AltLists(n) ==
    IF n = 0 THEN {<<>>}
    ELSE AltLists(n - 1) \cup {Append(l, t) : l \in {l \in AltLists(n - 1) : Len(l) = n - 1}, t \in AltTypes}
\* Pusher<boost::variant<TTypes...>>: d0 is its minSize, d1 its maxSize
PusherVariant ==
    /\ last.op = "none"
    /\ last' = [last EXCEPT !.op = "Pusher", !.d0 = minSize(last.ty), !.d1 = maxSize(last.ty)]
    /\ UNCHANGED <<lua, steps, registered>>
\* setTable<-1, boost::variant<TTypes...>>: instantiated, or rejected by its static_assert
SetTableVariant ==
    /\ last.op = "Pusher"
    /\ last' = [last EXCEPT !.op = "setTable",
                            !.kind = IF SingleSlot(last.ty) THEN "return" ELSE "rejected"]
    /\ UNCHANGED <<lua, steps, registered>>
NextSize == PusherVariant \/ SetTableVariant
InitSize ==
    /\ lua = InitL
    /\ steps = 0
    /\ registered = [fns |-> {}, member |-> 0, default |-> 0, forked |-> {}, wrote |-> {}]
    /\ \E ts \in AltLists(MaxAlts) \ {<<>>} : last = [NoOp EXCEPT !.ty = T_variant(ts)]
SpecSize == InitSize /\ [][NextSize]_vars

\* scripts run while the runtime meets a failure of its own
MaxFaultSteps == 2
Failures == {LUA_ERRMEM, LUA_ERRGCMM, LUA_ERRERR}
ExecuteCodeFault(chunk, ty, f) ==
    /\ Alive
    /\ Done([NoOp EXCEPT !.op = "executeCode", !.chunk = chunk, !.ty = ty, !.arg = f],
            executeCode([lua EXCEPT !.fault = f], chunk, ty))
    /\ UNCHANGED registered
NextFault ==
    \/ \E fid \in {f_inc, f_thrower, f_noop} : WriteVariable(S_f, <<T_function(fid), HFn(fid, 1)>>)
    \/ \E c \in {1, 2, C_callTrue}, ty \in ExecTypes, f \in Failures \cup {0} :
           ExecuteCodeFault(c, ty, f)
InitFault == Start(MaxFaultSteps)
SpecFault == InitFault /\ [][NextFault]_vars

(***************************** the claims ***********************************)
Global(name) == RawGet(lua.tabs[GlobalsTable].h, Str(name))
ThrewWrongType == last.kind = "throw" /\ last.exc[1].k = "WrongTypeException"

RoundTripKinds == {"bool", "int", "double", "string", "map", "unordered_map", "optional"}
C2_RoundTrip ==
    [][(/\ last.op = "writeVariable" /\ last.kind = "return" /\ last.ty.k \in RoundTripKinds
        /\ last'.op = "readVariable" /\ last'.name = last.name /\ last'.ty = last.ty
        /\ last'.offsets = <<>>)
       => (last'.kind = "return" /\ last'.ret = <<last.val>>)]_vars

\* the host function a runtime value stands for
HostFunction(x) ==
    IF x.t = "function" /\ x.v[1] = F_function THEN lua.uds[x.v[2]].obj
    ELSE IF x.t = "userdata" THEN lua.uds[x.v[1]].obj
    ELSE HNone
\* the script "return f(1, ..., n)" has just run with f a host function
CalledF ==
    /\ last.op = "executeCode" /\ last.chunk <= MaxArgs + 1
    /\ HostFunction(Global(S_f)).k = "function"
GivenArgs == last.chunk - 1
ParamsOfF == FnParams(HostFunction(Global(S_f)))
\* the parameters left after removing the longest suffix made only of Optional ones
RequiredPrefix(ps) ==
    IF \A i \in DOMAIN ps : IsOptional(ps[i]) THEN 0
    ELSE CHOOSE i \in DOMAIN ps : ~IsOptional(ps[i]) /\ \A j \in DOMAIN ps : j > i => IsOptional(ps[j])
Invocations == Cardinality({i \in DOMAIN last.log : last.log[i].k = "call"})
ExecutionError == last.kind = "throw" /\ last.exc[1].k = "ExecutionErrorException"

\* C3: a host function with parameter list P called from script with n arguments fails,
\* without decoding an argument and without invoking the callable, when n < min(P) or
\* n > max(P) (max the number of parameters, min the number left after removing the
\* longest all-Optional suffix), and is invoked once for min(P) <= n <= max(P);
\* (int, Optional<int>, Optional<double>) succeeds with 1, 2, 3 and fails with 0, 4.
C3_ArityChecked ==
    CalledF =>
        /\ (GivenArgs < RequiredPrefix(ParamsOfF) \/ GivenArgs > Len(ParamsOfF))
               => (ExecutionError /\ last.log = <<>>)
        /\ (GivenArgs >= RequiredPrefix(ParamsOfF) /\ GivenArgs <= Len(ParamsOfF))
               => Invocations = 1
        /\ HostFunction(Global(S_f)).d[1] = f_variadic
               => (last.kind = "return") = (GivenArgs \in 1..3)
\* (int, Optional<int>, int) called with two arguments: the Optional in the middle counts
C3_Witness ==
    /\ CalledF /\ ParamsOfF = <<T_int, T_optional(T_int), T_int>> /\ GivenArgs = 2
    /\ ExecutionError /\ last.log = <<>>

\* the host exceptions raised inside host callables during the last operation
RaisedInCallables == {last.log[i].s : i \in {i \in DOMAIN last.log : last.log[i].k = "threw"}}
\* chain e is nested, at some depth, inside chain c
NestedIn(e, c) == Len(e) < Len(c) /\ SubSeq(c, Len(c) - Len(e) + 1, Len(c)) = e

\* C4: a host exception raised while decoding the arguments of, invoking, or encoding
\* the result of a host callable called by a script during executeCode reaches the
\* caller of executeCode as an ExecutionErrorException nesting the original exception;
\* it is never lost and never surfaces as another exception type.
C4_HostExceptionNested ==
    (last.op = "executeCode" /\ last.kind \in {"return", "throw"})
        => \A e \in RaisedInCallables : ExecutionError /\ NestedIn(e, last.exc)

\* the bound object the scripts call obj, and what was invoked on it
BoundObj == lua.uds[Global(S_obj).v[1]].obj
BoundFoo == Global(S_obj).t = "userdata" /\ BoundObj.d[1] = Foo
ObjShape == ShapeCode(BoundObj.k)
ObjValue == IF BoundObj.k = "object" THEN BoundObj.d[2] ELSE lua.mem[BoundObj.d[2]].d[2]
Calls == SelectSeq(last.log, LAMBDA e : e.k = "call")
OneCall(fid) == Len(Calls) = 1 /\ Calls[1].d = <<fid>>
ReadsKey == last.op = "executeCode" /\ last.chunk \in {C_getValue, C_getOther, C_keepValue}
ReadKey == IF last.chunk = C_getOther THEN S_other ELSE S_value
Returned(x) == last.chunk = C_keepValue \/ (last.kind = "return" /\ last.ret = <<x>>)

\* C5: a script reading obj.key on a bound object resolves in a fixed order: a
\* function registered under key is returned itself and nothing is invoked;
\* otherwise the static getter registered under key is invoked once with the object
\* and its result is returned, the dynamic getter not being invoked; otherwise the
\* dynamic getter is invoked once with (object, key); otherwise the result is nil.
C5_IndexOrder ==
    (ReadsKey /\ BoundFoo) =>
        IF ReadKey \in registered.fns
        THEN Calls = <<>> /\ (last.chunk = C_keepValue => Global(S_a).t = "function")
        ELSE IF registered.member > 0 /\ ReadKey = S_value
        THEN OneCall(m_get + ObjShape) /\ Returned(HInt(ObjValue))
        ELSE IF registered.default > 0
        THEN /\ OneCall(m_dynget + ObjShape)
             /\ Calls[1].s[2] = HStr(ReadKey)
             /\ Returned(HInt(ObjValue + Len(ReadKey)))
        ELSE Calls = <<>> /\ (last.chunk = C_keepValue => Global(S_a) = Nil)

WritesKey == last.op = "executeCode" /\ last.chunk \in {C_setValue, C_setOther}
WrittenKey == IF last.chunk = C_setOther THEN S_other ELSE S_value
\* C6: a script executing obj.key = value on a bound object invokes the static
\* setter registered under key with (object, value) and not the dynamic setter;
\* otherwise it invokes the dynamic setter with (object, key, value); with neither,
\* the host caller gets the ExecutionErrorException "No setter found" and no host
\* setter runs.
C6_NewIndexOrder ==
    (WritesKey /\ BoundFoo) =>
        IF registered.member = 2 /\ WrittenKey = S_value
        THEN /\ OneCall(m_set + ObjShape)
             /\ Calls[1].s[2] = HInt(5)
             /\ last.kind = "return"
        ELSE IF registered.default = 2
        THEN /\ OneCall(m_dynset + ObjShape)
             /\ Calls[1].s[2] = HStr(WrittenKey)
             /\ Calls[1].s[3] = HInt(5)
             /\ last.kind = "return"
        ELSE /\ Calls = <<>>
             /\ last.kind = "throw"
             /\ last.exc = <<ExecutionErrorException(S_NoSetter)>>

\* the argument a callable received designates the object bound to obj
Designates(a) ==
    IF BoundObj.k = "object" THEN a = HRef(Foo, Global(S_obj).v[1]) ELSE a = BoundObj
CallsMethodValue ==
    /\ last'.op = "executeCode" /\ last'.chunk = C_methodValue
    /\ BoundFoo /\ S_value \in registered.fns
\* C7: once registerFunction("value", f) is done for Foo, the script call
\* obj:value(3) has the same effect whether obj was written as a Foo value, a Foo*
\* or a shared_ptr<Foo>: f runs once on the object obj designates with argument 3,
\* adds 3 to that object and the script gets the new value.
C7_SameMethodAllShapes ==
    [][CallsMethodValue =>
          /\ last'.kind = "return"
          /\ ObjValue' = ObjValue + 3
          /\ last'.ret = <<HInt(ObjValue')>>
          /\ Len(Calls') = 1
          /\ Calls'[1].d = <<m_add + ObjShape>>
          /\ Designates(Calls'[1].s[1])
          /\ Calls'[1].s[2] = HInt(3)]_vars
C7_Witness ==
    /\ last.op = "executeCode" /\ last.chunk = C_methodValue /\ last.kind = "return"
    /\ BoundFoo /\ BoundObj.k = "shared_ptr" /\ S_value \in registered.fns
    /\ OneCall(m_add + 2) /\ Calls[1].s[1] = BoundObj
    /\ ObjValue = 13 /\ last.ret = <<HInt(13)>>

CallsMethod == last.op = "executeCode" /\ last.chunk \in {C_methodValue, C_methodFoo}
MethodName == IF last.chunk = C_methodFoo THEN S_foo ELSE S_value
\* C8: the script call obj:name() on a bound Foo raises an execution error whenever
\* name is not registered at that moment (never registered, or unregistered since),
\* and between registerFunction(name) and unregisterFunction(name) it succeeds and
\* returns the function's result.
C8_RegisteredWindow ==
    (CallsMethod /\ BoundFoo) =>
        IF MethodName \in registered.fns
        THEN /\ last.kind = "return"
             /\ last.ret = <<HInt(IF MethodName = S_foo THEN 2 ELSE ObjValue)>>
        ELSE ExecutionError /\ Calls = <<>>

ObjectKinds == {"object", "ptr", "shared_ptr", "const_ptr", "shared_const"}
\* the static type a bound object was written with
WrittenAs(x) == Shaped(ShapeCode(lua.uds[x.v[1]].obj.k), lua.uds[x.v[1]].obj.d[1])
SlotHolds(ty) ==
    /\ last.offsets = <<>>
    /\ Global(last.name).t = "userdata"
    /\ WrittenAs(Global(last.name)) = ty
\* C9: readVariable<T> for an object type T returns only when the slot holds a bound
\* object written with exactly the type T, and it then returns that object; a
\* variable holding anything else (another class, the same class in another of the
\* shapes value, pointer, shared_ptr, or no object at all) makes it throw
\* WrongTypeException and return nothing.
C9_ExactTypeIdentity ==
    (last.op = "readVariable" /\ last.ty.k \in ObjectKinds) =>
        /\ last.kind = "return" =>
              /\ SlotHolds(last.ty)
              /\ last.ret = <<lua.uds[Global(last.name).v[1]].obj>>
        /\ last.offsets = <<>> =>
              IF SlotHolds(last.ty) THEN last.kind = "return"
              ELSE ThrewWrongType /\ last.ret = <<>>
C9_Witness ==
    /\ last.op = "readVariable" /\ last.ty = T_ptr(Foo) /\ last.offsets = <<>>
    /\ Global(S_a).t = "userdata" /\ WrittenAs(Global(S_a)) = T_obj(Foo)
    /\ ThrewWrongType /\ last.ret = <<>>

\* the script has called the host function f, which ran once and handed its result
\* back to the script
FReturned ==
    /\ last.op = "executeCode" /\ last.chunk \in CallChunks
    /\ HostFunction(Global(S_f)).k = "function"
    /\ Invocations = 1 /\ RaisedInCallables = {}
\* what f returns when its first argument is x and n arguments were given
ResultOfF(x, n) ==
    LET fid == HostFunction(Global(S_f)).d[1]
    IN IF fid = f_noop THEN <<>>
       ELSE IF fid = f_triple THEN <<Num(x, 0), Num(x + 1, 0), Str(S_hello)>>
       ELSE IF fid = f_inc THEN <<Num(x + 1, 0)>>
       ELSE <<Num(n, 0)>>
NilPadded(vs, n) == [i \in 1..n |-> IF i <= Len(vs) THEN vs[i] ELSE Nil]
\* C10: a host function called from a script returns to it as many values as its
\* result has elements, in order: none for void, one for a plain value, k for a tuple
\* of k; so "return f(...)" yields that many values and "a, b, c, d = f(2)" assigns
\* them to a, b, c, ... in order and nil to the names left over.
C10_ResultSpread ==
    FReturned =>
        /\ last.chunk <= MaxArgs + 1 => last.cnt = Len(ResultOfF(1, GivenArgs))
        /\ last.chunk = C_assign4 =>
              <<Global(S_a), Global(S_b), Global(S_c), Global(S_d)>> = NilPadded(ResultOfF(2, 1), 4)
C10_Witness ==
    /\ FReturned /\ last.chunk = C_assign4 /\ last.kind = "return"
    /\ HostFunction(Global(S_f)).d[1] = f_triple
    /\ Global(S_a) = Num(2, 0) /\ Global(S_b) = Num(3, 0)
    /\ Global(S_c) = Str(S_hello) /\ Global(S_d) = Nil

\* the script mutations of the last operation: the calls of add, of the setter of
\* "value" and of the default setter
Mutating(e) == e.k = "call" /\ IsMember(e.d[1]) /\ MemberBase(e.d[1]) \in {m_add, m_set, m_dynset}
Mutated(x, e) ==
    IF MemberBase(e.d[1]) = m_add THEN x + e.s[2].d[1]
    ELSE IF MemberBase(e.d[1]) = m_set THEN e.s[2].d[1]
    ELSE e.s[3].d[1] + Len(e.s[2].d)
RECURSIVE AfterAll(_, _)
AfterAll(x, es) == IF es = <<>> THEN x ELSE AfterAll(Mutated(x, es[1]), Tail(es))
\* the Foo a value read out of the runtime designates
Denoted(r) == IF r.k = "object" THEN r ELSE lua.mem[r.d[2]]
\* C11: a Foo written by value lives in the runtime as a copy of its own: what scripts
\* do to obj through registered methods and members changes that copy, shows in later
\* reads of the variable and leaves every Foo of the host as it was; a Foo written as
\* a raw pointer or a shared_ptr is the host's Foo itself, so the same script
\* mutations change the host's Foo and nothing else.
C11_CopyOrReferent ==
    [][/\ (last'.op = "executeCode" /\ BoundFoo) =>
             /\ Global(S_obj)' = Global(S_obj)
             /\ ObjValue' = AfterAll(ObjValue, SelectSeq(last'.log, Mutating))
             /\ IF BoundObj.k = "object"
                THEN lua'.mem = lua.mem /\ lua.mem[HostOriginal] = Foo1
                ELSE /\ BoundObj' = BoundObj
                     /\ \A i \in DOMAIN lua.mem : i # BoundObj.d[2] => lua'.mem[i] = lua.mem[i]
       /\ (last'.op = "readVariable" /\ last'.name = S_obj /\ last'.kind = "return" /\ BoundFoo) =>
             /\ last'.ty = WrittenAs(Global(S_obj))
             /\ Denoted(last'.ret[1]).d[2] = ObjValue
             /\ UNCHANGED lua.mem]_vars
\* obj written by value, obj:value(3) run: the runtime's copy holds 13, the host's Foo 10
C11_Witness ==
    /\ last.op = "executeCode" /\ last.chunk = C_methodValue /\ last.kind = "return"
    /\ BoundFoo /\ BoundObj = HObj(Foo, 13)
    /\ lua.mem[HostOriginal] = HObj(Foo, 10)
\* obj written as a Foo*, obj.value = 5 run: the host's Foo holds 5
C11_WitnessPtr ==
    /\ last.op = "executeCode" /\ last.chunk = C_setValue /\ last.kind = "return"
    /\ BoundFoo /\ BoundObj = HPtr(Foo, 1) /\ lua.mem[1] = HObj(Foo, 5)

Registry == lua.tabs[RegistryTable].h
KeyOf(id) == LUD(<<id>>)
\* the registry entries that belong to callable handles
HolderKeys == {k \in DOMAIN Registry : k.t = "lightuserdata" /\ Len(k.v) = 1}
\* every live handle has its one entry, which references the value that was read
Pinned ==
    /\ HolderKeys = {KeyOf(id) : id \in Held}
    /\ \A id \in Held : Registry[KeyOf(id)] = lua.holders[id].src
HandleOf(l) == l.val.d[1]
\* C12: from the read that produces a callable handle until its last copy is
\* destroyed the registry holds exactly one entry for it, referencing the script value
\* that was read; copies share the entry; destroying the last copy removes that entry
\* and no other; invoking the handle calls the value that was read, also after the
\* global it was read from has been reassigned.
C12_HandlePinsValue ==
    [][/\ Pinned'
       /\ last'.op = "copyCaller" => Registry' = Registry
       /\ last'.op = "destroyCaller" =>
             Registry' = IF lua.holders[HandleOf(last')].n = 1
                         THEN RawSet(Registry, KeyOf(HandleOf(last')), Nil) ELSE Registry
       /\ last'.op = "invokeCaller" =>
             LET f == lua.holders[HandleOf(last')].src
             IN f.v[1] = F_luaAdd =>
                   last'.kind = "return" /\ last'.ret = <<HInt(last'.arg + f.v[2])>>]_vars

\* the host values whose type has a destructor to run
NonTrivial(v) ==
    \/ v.k \in {"shared_ptr", "exception_ptr"}
    \/ v.k = "object" /\ v.d[1] # Foo
    \/ v.k = "function" /\ v.d[2] = 0
\* the value of the global the last operation named
Written == Global(last.name)
\* C13: a closure or object with a non-trivial destructor that is written into the
\* runtime is copied into memory the runtime owns; the copy is not destroyed while
\* the runtime is alive and still refers to it; its destructor runs exactly once,
\* and has run when the LuaContext has been destroyed.
C13_DestroyedOnce ==
    [][/\ (last'.op = "writeVariable" /\ last'.kind = "return" /\ NonTrivial(last'.val)) =>
             /\ Written'.t = "userdata"
             /\ Written'.v[1] \notin DOMAIN lua.uds
             /\ lua'.uds[Written'.v[1]].obj = last'.val
             /\ lua'.uds[Written'.v[1]].fin = 0
       /\ \A id \in DOMAIN lua'.uds : NonTrivial(lua'.uds[id].obj) =>
             /\ lua'.uds[id].fin <= 1
             /\ lua'.closed => lua'.uds[id].fin = 1
             /\ (lua'.uds[id].fin = 1 /\ ~lua'.closed) =>
                   /\ id \in DOMAIN lua.uds
                   /\ lua.uds[id].fin = 1 \/ UD(id) \notin Reachable(lua)
             /\ id \in DOMAIN lua.uds => lua'.uds[id].obj = lua.uds[id].obj]_vars
\* the function object written to f has been destroyed with the context, not before
C13_Witness ==
    /\ last.op = "destroyContext" /\ lua.closed
    /\ Global(S_f).t = "userdata"
    /\ lua.uds[Global(S_f).v[1]].obj = HFn(f_inc, 0)
    /\ lua.uds[Global(S_f).v[1]].fin = 1

\* the last operation read the variable itself, which holds a string
StringSlot ==
    last.op = "readVariable" /\ last.offsets = <<>> /\ Global(last.name).t = "string"
NonStringKinds == {"bool", "int", "double", "caller"} \cup ObjectKinds
\* the numbers whose text the host program writes
NumRange == -20..20
\* the string is the text Lua prints for the number i + h/2
IsTextOf(x, i, h) == x = Str(NumToStr(i, h))
\* C14, as stated: reading a string-valued variable as Bool, Int, Double, Function or
\* an opaque object type raises WrongTypeException and leaves the stack balanced, for
\* every string value.
C14_StringRejected ==
    (StringSlot /\ last.ty.k \in NonStringKinds) => (ThrewWrongType /\ last.d1 = last.d0)
\* C14, amended: reading a string-valued variable as Bool, Function or an opaque
\* object type raises WrongTypeException for every string; as Double it raises
\* WrongTypeException unless the string is the text of a number, and as Int unless it
\* is the text of an integer, in which cases that number is returned; the stack is
\* left balanced in every case.
C14_StringRejectedUnlessNumeral ==
    (StringSlot /\ last.ty.k \in NonStringKinds) =>
        /\ last.d1 = last.d0
        /\ IF last.ty.k = "int" /\ \E i \in NumRange : IsTextOf(Global(last.name), i, 0)
           THEN last.kind = "return" /\ IsTextOf(Global(last.name), last.ret[1].d[1], 0)
           ELSE IF last.ty.k = "double" /\ \E i \in NumRange, h \in {0, 1} : IsTextOf(Global(last.name), i, h)
           THEN last.kind = "return" /\ IsTextOf(Global(last.name), last.ret[1].d[1], last.ret[1].d[2])
           ELSE ThrewWrongType /\ last.ret = <<>>
\* "2.5" read as int: a number, but not an integer
C14_Witness ==
    /\ StringSlot /\ Global(S_a) = Str(S_2p5) /\ last.ty = T_int
    /\ ThrewWrongType /\ last.d1 = last.d0

\* the decimal text of an integer
RECURSIVE Decimal(_)
Decimal(n) ==
    IF n < 0 THEN <<45>> \o Decimal(-n)
    ELSE IF n < 10 THEN <<48 + n>>
    ELSE Decimal(n \div 10) \o <<48 + (n % 10)>>
\* C15: reads accept the runtime's implicit conversions: a variable holding a string
\* that is the decimal text of an integer n reads as the integer n, and a variable
\* holding the number n reads as the string with n's decimal text; neither throws.
C15_Conversions ==
    (last.op = "readVariable" /\ last.offsets = <<>>) =>
        \A n \in NumRange :
            /\ (Global(last.name) = Str(Decimal(n)) /\ last.ty = T_int)
                   => (last.kind = "return" /\ last.ret = <<HInt(n)>>)
            /\ (Global(last.name) = Num(n, 0) /\ last.ty = T_string)
                   => (last.kind = "return" /\ last.ret = <<HStr(Decimal(n))>>)
\* BasicReadWrite.Conversions: "12" read as int
C15_Witness ==
    /\ last.op = "readVariable" /\ last.offsets = <<>> /\ last.ty = T_int
    /\ Global(S_a) = Str(S_12) /\ last.kind = "return" /\ last.ret = <<HInt(12)>>

\* the number held by a, as its whole part and its fractional part in halves
Whole == Global(S_a).v[1]
Frac == Global(S_a).v[2]
\* a host callable rejected its arguments with WrongTypeException
Rejected ==
    /\ Calls = <<>>
    /\ \E i \in DOMAIN last.log :
          /\ last.log[i].k = "threw"
          /\ \A j \in DOMAIN last.log[i].s : last.log[i].s[j].k = "WrongTypeException"
\* C16: a runtime number is accepted by a read into int exactly when its fractional
\* part is zero, and then reads as itself; a number with a fractional part is rejected
\* with WrongTypeException, never truncated or rounded; test, testRead and readSafe
\* agree on every number.
C16_IntegralIffWhole ==
    Global(S_a).t = "number" =>
        /\ (last.op = "readVariable" /\ last.ty = T_int) =>
              IF Frac = 0 THEN last.kind = "return" /\ last.ret = <<HInt(Whole)>>
              ELSE ThrewWrongType /\ last.ret = <<>>
        /\ (last.op = "readVariable" /\ last.ty = T_tuple(<<T_int>>)) =>
              IF Frac = 0 THEN last.kind = "return" /\ last.ret = <<HTuple(<<HInt(Whole)>>)>>
              ELSE ThrewWrongType /\ last.ret = <<>>
        /\ (last.op = "executeCode" /\ last.chunk = C_incA /\ HostFunction(Global(S_f)).k = "function") =>
              IF Frac = 0
              THEN /\ OneCall(f_inc) /\ Calls[1].s = <<HInt(Whole)>>
                   /\ last.kind = "return" /\ last.ret = <<HInt(Whole + 1)>>
              ELSE Rejected /\ last.kind = "throw"
\* f(a) with a = 2.5: the int parameter is not decoded and f does not run
C16_Witness ==
    /\ last.op = "executeCode" /\ last.chunk = C_incA /\ HostFunction(Global(S_f)).k = "function"
    /\ Global(S_a) = Num(2, 1) /\ Rejected /\ last.kind = "throw"

\* the values a Reader's test accepts, by the kind of runtime value
Accepts(ty, x) ==
    IF ty.k = "bool" THEN x.t = "boolean"
    ELSE IF ty.k = "int"
         THEN \/ x.t = "number" /\ x.v[2] = 0
              \/ x.t = "string" /\ \E i \in NumRange : IsTextOf(x, i, 0)
    ELSE IF ty.k = "double"
         THEN \/ x.t = "number"
              \/ x.t = "string" /\ \E i \in NumRange, h \in {0, 1} : IsTextOf(x, i, h)
    ELSE IF ty.k = "string" THEN x.t \in {"string", "number"}
    ELSE x.t = "userdata" /\ WrittenAs(x) = ty
Accepting(ts, x) == {i \in DOMAIN ts : Accepts(ts[i], x)}
Least(S) == CHOOSE i \in S : \A j \in S : i <= j
VariantRead == last.op = "readVariable" /\ last.offsets = <<>> /\ last.ty.k = "variant"
\* the read yields the first alternative that accepts the slot, or WrongTypeException
FirstMatch ==
    VariantRead =>
        IF Accepting(last.ty.a, Global(last.name)) = {} THEN ThrewWrongType /\ last.ret = <<>>
        ELSE /\ last.kind = "return"
             /\ last.ret[1].k = "variant"
             /\ last.ret[1].d[1] = Least(Accepting(last.ty.a, Global(last.name))) - 1
             /\ last.ret[1].s[1].k = last.ty.a[last.ret[1].d[1] + 1].k
StringIntoBoolIntString ==
    VariantRead /\ last.ty = T_variant(<<T_bool, T_int, T_string>>) /\ Global(last.name).t = "string"
C17_WitnessNone ==
    /\ VariantRead /\ last.ty = T_variant(<<T_bool, T_int, T_ptr(Foo)>>)
    /\ Global(S_a) = Str(S_hello) /\ ThrewWrongType

\* what the last writeVariable wrote to: the variable, or the element of it
WrittenSlot ==
    IF last.offsets = <<>> THEN Global(last.name)
    ELSE RawGet(TabOf(lua, Global(last.name)).h, Num(last.offsets[1].d[1], 0))
\* the runtime value an int or a string is marshaled to
Marshaled(e) == IF e.k = "int" THEN Num(e.d[1], 0) ELSE Str(CStr(e.d))
SequenceWritten ==
    /\ last.op = "writeVariable" /\ last.kind = "return"
    /\ last.ty.k = "vector" /\ last.ty.a[1].k \in {"int", "string"}
C19_SequenceRoundTrip ==
    [][(/\ last.op = "writeVariable" /\ last.kind = "return" /\ last.offsets = <<>>
        /\ last.ty.k \in {"vector", "vector_pair"}
        /\ last'.op = "readVariable" /\ last'.name = last.name /\ last'.ty = last.ty
        /\ last'.offsets = <<>>)
       => (last'.kind = "return" /\ last'.ret = <<last.val>>)]_vars

\* C20: writeVariable(name, index..., value) either stores the value or throws, and
\* in both cases leaves the stack at its prior depth, with no table, key or partly
\* built container on it, also when an element of a Sequence or AssocMap value or the
\* construction of an opaque object fails.
C20_WriteAllOrNothing ==
    last.op = "writeVariable" =>
        /\ last.kind \in {"return", "throw"}
        /\ last.kind = "return" => WrittenSlot # Nil
        /\ last.d1 = last.d0

\* C21: after forkGlobals(t), a global that t has not written reads in t as the main
\* context's current value, and a script of t that writes a global leaves the main
\* context's value of that global, which is also what the other threads see, as it was.
MainA == Global(S_a)
C21_ForkIsolates ==
    [][/\ (last'.op = "executeCodeThread" /\ last'.arg \in registered.forked
            /\ last'.kind = "return") => MainA' = MainA
       /\ (last'.op = "readVariableThread" /\ last'.arg \in registered.forked
            /\ last'.arg \notin registered.wrote /\ last'.ty = T_string
            /\ MainA.t = "string") => last'.ret = <<HStr(MainA.v)>>]_vars

\* C22: a WrongTypeException raised by readVariable carries as luaType the type name
\* of the very value that failed to convert.
C22_LuaTypeOfFailedValue ==
    (last.op = "readVariable" /\ last.offsets = <<>> /\ ThrewWrongType)
        => last.exc[1].d = NameBytes(TypeName(Global(last.name)))

\* C23: an executeCode that does not return raises one exception and leaves the stack
\* at the depth it had before the chunk was pushed, also when the chunk ran and the
\* value it returned does not convert to the requested type.
C23_FailedCallRestoresDepth ==
    (last.op = "executeCode" /\ last.kind # "return")
        => (last.kind = "throw" /\ last.exc # <<>> /\ last.d1 = last.d0)

\* the registration table of a shape of Foo: what its slot holds, a table of named
\* entries (0 functions, 1 getters, 4 setters) or an accessor (2 and 5)
RegistrationOf(L, shape) == RawGet(L.tabs[RegistryTable].h, LUD(TypeId(Shaped(shape, Foo))))
SlotOf(L, shape, slot) ==
    IF RegistrationOf(L, shape).t # "table" THEN Nil
    ELSE RawGet(TabOf(L, RegistrationOf(L, shape)).h, Num(slot, 0))
Named(L, shape, slot) ==
    IF SlotOf(L, shape, slot).t # "table" THEN EmptyTab ELSE TabOf(L, SlotOf(L, shape, slot)).h
Registrations == [sh \in 0..2 |-> [sl \in {0, 1, 4} |-> Named(lua, sh, sl)]]
Accessors == [sh \in 0..2 |-> [sl \in {2, 5} |-> SlotOf(lua, sh, sl)]]
\* C24: unregisterFunction<Foo>(name) removes the function registered under name and
\* nothing else: for Foo, Foo* and shared_ptr<Foo>, every function registered under
\* another name and every getter and setter, named or default, stays registered.
C24_UnregisterOnlyName ==
    [][last'.op = "unregisterFunction" =>
          \A sh \in 0..2 :
              /\ \A n \in DOMAIN Registrations[sh][0] :
                     n # Str(last'.name) => /\ n \in DOMAIN Registrations'[sh][0]
                                            /\ Registrations'[sh][0][n] = Registrations[sh][0][n]
              /\ Registrations'[sh][1] = Registrations[sh][1]
              /\ Registrations'[sh][4] = Registrations[sh][4]
              /\ Accessors'[sh] = Accessors[sh]]_vars

\* the host function behind a script value made from one
HostFn(x) ==
    IF x.t = "function" /\ x.v[1] = F_function THEN lua.uds[x.v[2]].obj.d[1]
    ELSE IF x.t = "userdata" THEN lua.uds[x.v[1]].obj.d[1]
    ELSE 0
\* C25: once registerMember<Foo,int>(getter, setter) has run in its dynamic form, the
\* registration table of each of Foo, Foo* and shared_ptr<Foo> holds the getter
\* adapter in slot 2 and the setter adapter in slot 5.
C25_DefaultAccessorSlots ==
    registered.default = 2 =>
        \A sh \in 0..2 : /\ HostFn(Accessors[sh][2]) = m_dynget + sh
                         /\ HostFn(Accessors[sh][5]) = m_dynset + sh

OptionalRead == last.op = "readVariable" /\ last.offsets = <<>> /\ last.ty.k = "optional"
\* C28: readVariable<Optional<T>> yields the empty optional for a nil slot, the value
\* for a slot T accepts, and raises WrongTypeException for any other slot, which is
\* never returned as the empty optional.
C28_OptionalThreeCases ==
    OptionalRead =>
        IF Global(last.name) = Nil THEN last.kind = "return" /\ last.ret = <<HEmpty>>
        ELSE IF Accepts(last.ty.a[1], Global(last.name))
        THEN /\ last.kind = "return"
             /\ last.ret # <<HEmpty>>
             /\ last.ret[1].s[1].k = last.ty.a[1].k
        ELSE ThrewWrongType

\* the script called g(foo, 7), g being a host function that keeps its first argument
KeptFoo == last.op = "executeCode" /\ last.chunk = C_keepFoo /\ last.kind = "return"
\* C29: the handle built for a function-typed parameter that is followed by another
\* parameter references the function passed in that position, not the value on top
\* of the stack: after g(foo, 7) the handle g kept references foo.
C29_HandleOfItsSlot ==
    KeptFoo => /\ Len(lua.holders) \in Held
               /\ RawGet(Registry, KeyOf(Len(lua.holders))) = Global(S_foo)

Greatest(S) == CHOOSE x \in S : \A y \in S : y <= x
AltMins == {minSize(last.ty.a[i]) : i \in DOMAIN last.ty.a}
AltMaxs == {maxSize(last.ty.a[i]) : i \in DOMAIN last.ty.a}
\* C30: a variant declares as minSize the least minSize of its alternatives and as
\* maxSize the greatest maxSize of its alternatives; a variant whose alternatives all
\* take one slot declares 1 and 1, and setTable accepts it as its data.
C30_VariantSlotRange ==
    /\ last.op \in {"Pusher", "setTable"} =>
           last.d0 = Least(AltMins) /\ last.d1 = Greatest(AltMaxs)
    /\ (last.op = "setTable" /\ AltMins = {1} /\ AltMaxs = {1}) => last.kind = "return"

\* the exceptions host function fid raised during the last operation, in order
ThrownBy(fid) == SelectSeq(last.log, LAMBDA e : e.k = "threw" /\ e.d = <<fid>>)
\* C27: a failed protected call is classified by its error object alone, whatever lies
\* below it on the stack: when g(x), a host function that received an argument, runs
\* executeCode<int>("return f()") and that call fails, g gets an
\* ExecutionErrorException, which nests the exception f raised if f raised one.
C27_ClassifiedByErrorObject ==
    \A i \in DOMAIN ThrownBy(f_nest) :
        /\ ThrownBy(f_nest)[i].s[1].k = "ExecutionErrorException"
        /\ \A j \in DOMAIN ThrownBy(f_thrower) :
               NestedIn(ThrownBy(f_thrower)[j].s, ThrownBy(f_nest)[i].s)

\* C26: whenever the protected call of an executeCode reports a failure status, out
\* of memory, a failing finalizer or an error while handling an error included, the
\* host caller gets an exception; the call never returns normally.
C26_FailureAlwaysThrows ==
    (last.op = "executeCode" /\ last.arg \in Failures) => last.kind = "throw"

====
